---- MODULE Spec2Model ----
(***************************************************************************)
(* PriceSubscriptionManager (src/src/public_api_sdk/subscription_manager.py)*)
(* as a state machine: the registry operations called from client threads, *)
(* and the polling worker that start() spawns on a background thread.      *)
(*                                                                         *)
(* Every block the code runs under self._lock is one atomic step. The      *)
(* worker's unlocked code is cut at its await points and between the       *)
(* accesses to shared state that the lock does not cover. subscribe's      *)
(* locked block and the test that opens start() are one step: the test     *)
(* reads only self.thread, which no step that reads or writes the registry *)
(* changes, so moving it up to the locked block loses no behaviour.        *)
(*                                                                         *)
(* Time is counted in tenths of a second.                                  *)
(***************************************************************************)
EXTENDS Integers, Sequences, FiniteSets, TLC

\* ---------------------------------------------------------------- bounds
MaxSubs == 2        \* subscriptions created over the manager's lifetime
\* Spec: two calls of each client thread around two fetches
WideCalls == 2
WideFetches == 2
WideTicks == 1
WideThreads == 1
\* SpecPolling: one call of each client thread, several poll cycles of the worker
DeepCalls == 1
DeepFetches == 3
DeepTicks == 2
DeepThreads == 1
\* two racing clients and two worker threads (SpecRace)
RaceCalls == 1
RaceFetches == 2
RaceTicks == 1
RaceThreads == 2
\* a start, a stop and a second stop around one worker thread (SpecStop)
StopCalls == 1
StopAgain == 1
StopFetches == 2
StopTicks == 1
StopThreads == 1
\* SpecStream: the calls made on one AsyncPriceStream
MaxStreamSubs == 2
StreamRemovals == 1
MaxGenerators == 2
StreamFetches == 3
\* SpecStreamHistory: one generator, with the history of its fetches and items
OneStreamSub == 1
OneRemoval == 1
OneGenerator == 1
HistoryFetches == 3
\* SpecRetry: two subscriptions of one client and the retries of their fetches
RetryCalls == 2
RetryFetches == 4
RetryTicks == 3
RetryThreads == 1
\* SpecRestart: a subscribe, a stop and a start or subscribe of one client
RestartCalls == 3
RestartFetches == 2
RestartTicks == 2
RestartThreads == 2
\* SpecOrder: the waits on one AsyncNewOrder
NarrowCalls == 2
NarrowOtherCalls == 1
NarrowFetches == 2
NarrowTicks == 1
NarrowThreads == 1

ChurnCalls == 2
ChurnFetches == 2
ChurnTicks == 1
ChurnThreads == 1

PairStreamSubs == 2
PairGenerators == 2
PairFetches == 4

LiveCalls == 2
LiveFetches == 2
LiveTicks == 4
LiveThreads == 2

MaxWaits == 1        \* calls of a wait_for_* method
MaxOrderFetches == 3 \* get_order requests the API answers
MaxOrderChanges == 2 \* status changes of the order at the API
MaxOrderTicks == 4   \* advances of time.monotonic()

\* ------------------------------------------------------- program constants
MinFrequency == 1      \* 0.1 s
MaxFrequency == 600    \* 60 s
InitialBackoff == 10   \* backoff = 1 (second)
RetrySleep == 10       \* asyncio.sleep(1) between plain retries
ErrorSleep == 10       \* asyncio.sleep(1) after an error in the polling loop
JoinTimeout == 50      \* thread.join(timeout=5)
DefaultPollingInterval == 10   \* polling_interval: float = 1.0
NoTimeout == 0 - 1     \* timeout: Optional[float] = None

\* ------------------------------------------------------------ environment
Clients == {"c1", "c2"}
AAPL == [symbol |-> "AAPL", type |-> "EQUITY"]
MSFT == [symbol |-> "MSFT", type |-> "EQUITY"]
InstrumentLists == {<<>>, <<AAPL>>, <<AAPL, MSFT>>}
Prices == { [last |-> 100, bid |-> 99, ask |-> 101],
            [last |-> 101, bid |-> 99, ask |-> 102] }
AdvanceSteps == {5}
NoConfig == [polling_frequency_seconds |-> 0, retry_on_error |-> FALSE,
             max_retries |-> 0, exponential_backoff |-> FALSE]
CustomConfigs == { [polling_frequency_seconds |-> 5, retry_on_error |-> TRUE,
                    max_retries |-> 1, exponential_backoff |-> FALSE] }
FrequencyArgs == {0, 1, 600, 601}
ChurnFrequencies == {1, 600}
\* configs that differ in what _fetch_quotes_with_retry reads
RetryConfigs == { [polling_frequency_seconds |-> 5, retry_on_error |-> TRUE,
                   max_retries |-> 2, exponential_backoff |-> FALSE],
                  [polling_frequency_seconds |-> 5, retry_on_error |-> FALSE,
                   max_retries |-> 2, exponential_backoff |-> FALSE],
                  [polling_frequency_seconds |-> 5, retry_on_error |-> TRUE,
                   max_retries |-> 0, exponential_backoff |-> TRUE] }
RetryInstruments == {<<AAPL>>}
RetrySteps == {10, 60}
\* the values a quote's last, bid and ask take where the change detector is checked
QuoteValues == {99, 100}
QuotesOf(instrument) ==
  { [instrument |-> instrument, last |-> l, bid |-> b, ask |-> a] :
    l \in QuoteValues, b \in QuoteValues, a \in QuoteValues }
\* class OrderStatus
OrderStatus == {"NEW", "PARTIALLY_FILLED", "CANCELLED", "QUEUED_CANCELLED", "FILLED",
                "REJECTED", "PENDING_REPLACE", "PENDING_CANCEL", "EXPIRED", "REPLACED"}
\* the order the AsyncNewOrder was constructed for
OrderId == "order-1"
\* the target_status arguments of wait_for_status: one OrderStatus or a list of them
TargetArgs == { [isinstance |-> "OrderStatus", value |-> <<"FILLED">>],
                [isinstance |-> "OrderStatus", value |-> <<"CANCELLED">>],
                [isinstance |-> "list", value |-> <<"FILLED", "PARTIALLY_FILLED">>],
                [isinstance |-> "list", value |-> <<>>] }
TimeoutArgs == {NoTimeout, 0, 10}
PollingIntervalArgs == {5}
OrderAdvanceSteps == {5}
\* what get_order can raise
OrderErrors == {"APIError"}
\* what a call of get_quotes_func or of a callback can end with
FetchErrors == {"ConnectionError", "ValueError", "RuntimeError", "OSError"}
CallbackOutcomes == {"ok", "ValueError", "KeyError"}

\* SubscriptionConfig() with no arguments
DefaultConfig == [polling_frequency_seconds |-> 10, retry_on_error |-> TRUE,
                  max_retries |-> 3, exponential_backoff |-> TRUE]

VARIABLES
  subscriptions,               \* self.subscriptions: id -> Subscription
  configs,                     \* the SubscriptionConfig objects: 0 is self.default_config
  instrument_to_subscription,  \* self.instrument_to_subscription: key -> set of ids
  last_quotes,                 \* self.last_quotes: key -> Quote
  last_poll_times,             \* self.last_poll_times: id -> time
  thread,                      \* self.thread: 0 (None) or a worker
  polling_task,                \* self.polling_task / self.loop: 0 (None) or a worker
  stop_event,                  \* self._stop_event
  executor_shutdown,           \* self.executor was shut down
  cancel_requested,            \* workers whose task was cancelled and has not seen it yet
  workers,                     \* the worker threads: position and locals
  nthreads,                    \* worker threads created so far
  nextId,                      \* the ids uuid4 has produced are 1 .. nextId-1
  cpc, cid,                    \* client threads: position in start/stop, id in hand
  join_deadline,               \* client threads in stop(): when the join gives up
  result,                      \* what the last completed client call returned or raised
  issued,                      \* history: the ids subscribe registered, in order
  unsubscribed,                \* history: ids for which unsubscribe returned True
  fetched,                     \* history: the quote_map of every fetch that returned quotes
  invoked,                     \* history: every callback invocation
  budget,                      \* what the environment may still do
  now,                         \* time.time()
  stream_subscriptions,        \* AsyncPriceStream._subscriptions: id -> set of symbols
  stream_last_quotes,          \* AsyncPriceStream._last_quotes: symbol -> Quote
  stream_running,              \* AsyncPriceStream._running
  generators,                  \* the async generators price_generator returned
  stream_next,                 \* the ids uuid4 produced for the stream are 1 .. stream_next-1
  stream_lock,                 \* AsyncPriceStream._lock.locked()
  stream_budget,               \* what the stream's callers may still do
  order_status,                \* the status of the order at the API, as get_order reports it
  last_known_status,           \* AsyncNewOrder._last_known_status
  waiter,                      \* the coroutine waiting in wait_for_status
  monotonic,                   \* time.monotonic()
  order_budget                 \* what the order's caller and the API may still do

\* the state of a PriceSubscriptionManager and of its callers
manager == <<subscriptions, configs, instrument_to_subscription, last_quotes,
             last_poll_times, thread, polling_task, stop_event, executor_shutdown,
             cancel_requested, workers, nthreads, nextId, cpc, cid, join_deadline,
             result, issued, unsubscribed, fetched, invoked, budget, now>>
\* the state of an AsyncPriceStream and of its callers
stream == <<stream_subscriptions, stream_last_quotes, stream_running, generators,
            stream_next, stream_lock, stream_budget>>
\* the state of an AsyncNewOrder, of its caller and of the order at the API
new_order == <<order_status, last_known_status, waiter, monotonic, order_budget>>
vars == <<manager, stream, new_order>>

registry == <<subscriptions, configs, instrument_to_subscription, last_quotes,
              last_poll_times>>
scheduler == <<thread, polling_task, stop_event, executor_shutdown,
               cancel_requested, workers, nthreads>>
clients == <<cpc, cid, join_deadline>>
history == <<issued, unsubscribed, fetched, invoked>>
\* what no step of a worker changes
client_side == <<nextId, cpc, cid, join_deadline, result, issued, unsubscribed>>

\* ---------------------------------------------------------------- helpers
Min2(a, b) == IF a <= b THEN a ELSE b
Remove(f, k) == [x \in DOMAIN f \ {k} |-> f[x]]
Put(f, k, v) == [x \in DOMAIN f \cup {k} |-> IF x = k THEN v ELSE f[x]]
Empty == [x \in {} |-> 0]

RECURSIVE Ascending(_)
\* the ids of S in the order they were inserted into the dict
Ascending(S) ==
  IF S = {} THEN <<>>
  ELSE LET m == CHOOSE x \in S : \A y \in S : x <= y
       IN <<m>> \o Ascending(S \ {m})

\* f"{instrument.symbol}_{instrument.type.value}"
Key(instrument) == instrument.symbol \o "_" \o instrument.type
Keys(instruments) == {Key(instruments[i]) : i \in 1..Len(instruments)}

Returned(v) == [kind |-> "bool", id |-> 0, ok |-> v]
ReturnedId(i) == [kind |-> "id", id |-> i, ok |-> TRUE]
ReturnedNone == [kind |-> "none", id |-> 0, ok |-> TRUE]
Raised(e, message) == [kind |-> e, id |-> 0, ok |-> FALSE, message |-> message]

\* the locals of a worker thread, cleared
NoWorker == [pc |-> "none", groups |-> <<>>, gi |-> 0, current_time |-> 0,
             retries |-> 0, backoff |-> 0, quote_map |-> Empty, wi |-> 0,
             change |-> <<>>, wake |-> 0, before |-> Empty, logged |-> 0]
Finished == [NoWorker EXCEPT !.pc = "done"]
\* thread.is_alive(), not loop.is_closed(): 0 is None
IsAlive(w) == w \in DOMAIN workers /\ workers[w].pc # "done"

\* ------------------------------------------------------------------- Init
\* AsyncPriceStream.__init__
StreamConstructed ==
  /\ stream_subscriptions = Empty
  /\ stream_last_quotes = Empty
  /\ stream_running = {}
  /\ generators = <<>>
  /\ stream_next = 1
  /\ stream_lock = FALSE

\* no call is made on the stream
NoStream == [subscribes |-> 0, removals |-> 0, generators |-> 0, fetches |-> 0,
             history |-> FALSE]

\* AsyncNewOrder.__init__, for an order the API holds as NEW, and no wait begun
NoWaiter == [pc |-> "idle", target_statuses |-> <<>>,
             timeout |-> NoTimeout, polling_interval |-> 0, start_time |-> 0,
             wake |-> 0, fetched |-> <<>>, result |-> [kind |-> "none"]]
OrderConstructed ==
  /\ order_status = "NEW"
  /\ last_known_status = "None"
  /\ waiter = NoWaiter
  /\ monotonic = 0
NoOrder == [waits |-> 0, fetches |-> 0, changes |-> 0, ticks |-> 0]

Constructed ==
  /\ subscriptions = Empty
  /\ configs = (0 :> DefaultConfig)
  /\ instrument_to_subscription = Empty
  /\ last_quotes = Empty
  /\ last_poll_times = Empty
  /\ thread = 0
  /\ polling_task = 0
  /\ stop_event = FALSE
  /\ executor_shutdown = FALSE
  /\ cancel_requested = {}
  /\ workers = Empty
  /\ nthreads = 0
  /\ nextId = 1
  /\ cpc = [t \in Clients |-> "idle"]
  /\ cid = [t \in Clients |-> 0]
  /\ join_deadline = [t \in Clients |-> 0]
  /\ result = ReturnedNone
  /\ issued = <<>>
  /\ unsubscribed = {}
  /\ fetched = <<>>
  /\ invoked = <<>>
  /\ now = 0

\* what the environment still does: the calls of each client thread, the calls of
\* get_quotes_func, the passages of time, the threads the interpreter starts; and
\* whether the run keeps the histories fetched and invoked
Init ==
  /\ Constructed
  /\ StreamConstructed
  /\ stream_budget = NoStream
  /\ OrderConstructed
  /\ order_budget = NoOrder
  /\ budget = [calls |-> [t \in Clients |-> WideCalls], fetches |-> WideFetches,
               ticks |-> WideTicks, threads |-> WideThreads, history |-> FALSE,
               stops |-> 0]

InitPolling ==
  /\ Constructed
  /\ StreamConstructed
  /\ stream_budget = NoStream
  /\ OrderConstructed
  /\ order_budget = NoOrder
  /\ budget = [calls |-> [t \in Clients |-> DeepCalls], fetches |-> DeepFetches,
               ticks |-> DeepTicks, threads |-> DeepThreads, history |-> TRUE,
               stops |-> 0]

InitRetry ==
  /\ Constructed
  /\ StreamConstructed
  /\ stream_budget = NoStream
  /\ OrderConstructed
  /\ order_budget = NoOrder
  /\ budget = [calls |-> [t \in Clients |-> IF t = "c1" THEN RetryCalls ELSE 0],
               fetches |-> RetryFetches, ticks |-> RetryTicks,
               threads |-> RetryThreads, history |-> FALSE, stops |-> 0]

InitRace ==
  /\ Constructed
  /\ StreamConstructed
  /\ stream_budget = NoStream
  /\ OrderConstructed
  /\ order_budget = NoOrder
  /\ budget = [calls |-> [t \in Clients |-> RaceCalls], fetches |-> RaceFetches,
               ticks |-> RaceTicks, threads |-> RaceThreads, history |-> FALSE,
               stops |-> 0]

InitStop ==
  /\ Constructed
  /\ StreamConstructed
  /\ stream_budget = NoStream
  /\ OrderConstructed
  /\ order_budget = NoOrder
  /\ budget = [calls |-> [t \in Clients |-> StopCalls], fetches |-> StopFetches,
               ticks |-> StopTicks, threads |-> StopThreads, history |-> FALSE,
               stops |-> StopAgain]

\* no call is made on the manager
NoBudget == [calls |-> [t \in Clients |-> 0], fetches |-> 0, ticks |-> 0,
             threads |-> 0, history |-> FALSE, stops |-> 0]

InitStream ==
  /\ Constructed
  /\ budget = NoBudget
  /\ StreamConstructed
  /\ stream_budget = [subscribes |-> MaxStreamSubs, removals |-> StreamRemovals,
                      generators |-> MaxGenerators, fetches |-> StreamFetches,
                      history |-> FALSE]
  /\ OrderConstructed
  /\ order_budget = NoOrder

InitStreamHistory ==
  /\ Constructed
  /\ budget = NoBudget
  /\ StreamConstructed
  /\ stream_budget = [subscribes |-> OneStreamSub, removals |-> OneRemoval,
                      generators |-> OneGenerator, fetches |-> HistoryFetches,
                      history |-> TRUE]
  /\ OrderConstructed
  /\ order_budget = NoOrder

\* a history with one more event, where histories are kept
Record(log, event) == IF budget.history THEN Append(log, event) ELSE log

\* ------------------------------------------------- the registry operations
\* an id generator that repeats itself
Uuid4Repeating == Min2(nextId, 1)

\* str(uuid.uuid4()): an id no earlier call produced
Uuid4 == nextId

\* a subscribe that does not look at the list
InstrumentsUnchecked(instruments) == FALSE

\* not instruments
InstrumentsEmpty(instruments) == Len(instruments) = 0

\* a subscribe that indexes the first instrument only
AddToIndexFirstOnly(index, instruments, subscription_id, i) ==
  IF instruments = <<>> THEN index
  ELSE LET key == Key(instruments[1])
           bucket == IF key \in DOMAIN index THEN index[key] ELSE {}
       IN Put(index, key, bucket \cup {subscription_id})

RECURSIVE AddToIndex(_, _, _, _)
\* subscribe's loop over instruments, from position i
AddToIndex(index, instruments, subscription_id, i) ==
  IF i > Len(instruments) THEN index
  ELSE LET key == Key(instruments[i])
           bucket == IF key \in DOMAIN index THEN index[key] ELSE {}
       IN AddToIndex(Put(index, key, bucket \cup {subscription_id}),
                     instruments, subscription_id, i + 1)

\* an unsubscribe that leaves the emptied bucket in the index
DiscardKeepingBucket(st, key, subscription_id) ==
  IF key \notin DOMAIN st.index THEN st
  ELSE LET bucket == st.index[key] \ {subscription_id}
       IN IF bucket # {}
          THEN [st EXCEPT !.index = Put(st.index, key, bucket)]
          ELSE [index |-> Put(st.index, key, bucket),
                quotes |-> IF key \in DOMAIN st.quotes
                           THEN Remove(st.quotes, key) ELSE st.quotes]

\* an unsubscribe that drops the cached quote whoever else watches the key
DiscardDroppingQuote(st, key, subscription_id) ==
  IF key \notin DOMAIN st.index THEN st
  ELSE LET bucket == st.index[key] \ {subscription_id}
       IN [index |-> IF bucket # {} THEN Put(st.index, key, bucket)
                     ELSE Remove(st.index, key),
           quotes |-> IF key \in DOMAIN st.quotes
                      THEN Remove(st.quotes, key) ELSE st.quotes]

\* unsubscribe: one instrument's bucket, and the cached quote with its last watcher
DiscardFromIndex(st, key, subscription_id) ==
  IF key \notin DOMAIN st.index THEN st
  ELSE LET bucket == st.index[key] \ {subscription_id}
       IN IF bucket # {}
          THEN [st EXCEPT !.index = Put(st.index, key, bucket)]
          ELSE [index |-> Remove(st.index, key),
                quotes |-> IF key \in DOMAIN st.quotes
                           THEN Remove(st.quotes, key) ELSE st.quotes]

RECURSIVE RemoveFromIndex(_, _, _, _)
\* unsubscribe's loop over subscription.instruments, from position i
RemoveFromIndex(st, instruments, subscription_id, i) ==
  IF i > Len(instruments) THEN st
  ELSE RemoveFromIndex(DiscardFromIndex(st, Key(instruments[i]), subscription_id),
                       instruments, subscription_id, i + 1)

ConfigOf(sub) == configs[sub.config]

\* a list of every registered id, whatever its status
GetAllSubscriptions == Ascending(DOMAIN subscriptions)

\* get_active_subscriptions()
GetActiveSubscriptions ==
  Ascending({i \in DOMAIN subscriptions : subscriptions[i].status = "ACTIVE"})

\* a client thread enters a method of the manager
Call(t) ==
  /\ cpc[t] = "idle"
  /\ budget.calls[t] > 0
  /\ budget' = [budget EXCEPT !.calls[t] = @ - 1]

\* start(): if self.thread and self.thread.is_alive(): return; else the thread is
\* created next
StartCheck(t, id) ==
  IF IsAlive(thread)
  THEN /\ result' = IF id # 0 THEN ReturnedId(id) ELSE ReturnedNone
       /\ UNCHANGED <<cpc, cid>>
  ELSE /\ cpc' = [cpc EXCEPT ![t] = "spawn"]
       /\ cid' = [cid EXCEPT ![t] = id]
       /\ UNCHANGED result

\* subscribe(instruments, callback, config), up to the test that opens start()
Subscribe(t, instruments, config) ==
  /\ Call(t)
  /\ IF InstrumentsEmpty(instruments)
     THEN /\ result' = Raised("ValueError", "instruments must contain at least one item")
          /\ UNCHANGED <<subscriptions, configs, instrument_to_subscription,
                         nextId, cpc, cid, issued>>
     ELSE /\ nextId <= MaxSubs
          /\ LET subscription_id == Uuid4
                 ref == IF config = NoConfig THEN 0 ELSE subscription_id
             IN /\ nextId' = nextId + 1
                /\ issued' = Append(issued, subscription_id)
                /\ configs' = IF config = NoConfig THEN configs
                              ELSE Put(configs, ref, config)
                /\ subscriptions' =
                     Put(subscriptions, subscription_id,
                         [id |-> subscription_id, instruments |-> instruments,
                          status |-> "ACTIVE", config |-> ref])
                /\ instrument_to_subscription' =
                     AddToIndex(instrument_to_subscription, instruments,
                                subscription_id, 1)
                /\ StartCheck(t, subscription_id)
  /\ UNCHANGED <<last_quotes, last_poll_times, scheduler, join_deadline,
                 unsubscribed, fetched, invoked, now>>
  /\ UNCHANGED <<stream, new_order>>

\* the config object of a removed subscription is garbage, unless it is the default
Collect(cfgs, subs) ==
  [r \in {0} \cup {subs[i].config : i \in DOMAIN subs} |-> cfgs[r]]

\* unsubscribe(subscription_id)
Unsubscribe(t, subscription_id) ==
  /\ Call(t)
  /\ IF subscription_id \notin DOMAIN subscriptions
     THEN /\ result' = Returned(FALSE)
          /\ UNCHANGED <<registry, unsubscribed>>
     ELSE LET st == RemoveFromIndex([index |-> instrument_to_subscription,
                                     quotes |-> last_quotes],
                                    subscriptions[subscription_id].instruments,
                                    subscription_id, 1)
          IN /\ instrument_to_subscription' = st.index
             /\ last_quotes' = st.quotes
             /\ subscriptions' = Remove(subscriptions, subscription_id)
             /\ configs' = Collect(configs, subscriptions')
             /\ last_poll_times' = IF subscription_id \in DOMAIN last_poll_times
                                   THEN Remove(last_poll_times, subscription_id)
                                   ELSE last_poll_times
             /\ unsubscribed' = unsubscribed \cup {subscription_id}
             /\ result' = Returned(TRUE)
  /\ UNCHANGED <<scheduler, nextId, clients, issued, fetched, invoked, now>>
  /\ UNCHANGED <<stream, new_order>>

\* unsubscribe_all()
UnsubscribeAll(t) ==
  /\ Call(t)
  /\ subscriptions' = Empty
  /\ configs' = Collect(configs, subscriptions')
  /\ instrument_to_subscription' = Empty
  /\ last_quotes' = Empty
  /\ last_poll_times' = Empty
  /\ result' = ReturnedNone
  /\ UNCHANGED <<scheduler, nextId, clients, history, now>>
  /\ UNCHANGED <<stream, new_order>>

\* a pause or resume that also forgets the cached quotes of the subscription
SetStatusDroppingQuotes(t, subscription_id, status) ==
  /\ Call(t)
  /\ IF subscription_id \in DOMAIN subscriptions
     THEN /\ subscriptions' = [subscriptions EXCEPT ![subscription_id].status = status]
          /\ last_quotes' =
               [key \in DOMAIN last_quotes \
                         Keys(subscriptions[subscription_id].instruments)
                  |-> last_quotes[key]]
          /\ result' = Returned(TRUE)
     ELSE /\ result' = Returned(FALSE)
          /\ UNCHANGED <<subscriptions, last_quotes>>
  /\ UNCHANGED <<configs, instrument_to_subscription, last_poll_times,
                 scheduler, nextId, clients, history, now>>
  /\ UNCHANGED <<stream, new_order>>

\* a pause or resume that reports success whatever the id
SetStatusAlwaysTrue(t, subscription_id, status) ==
  /\ Call(t)
  /\ subscriptions' = IF subscription_id \in DOMAIN subscriptions
                      THEN [subscriptions EXCEPT ![subscription_id].status = status]
                      ELSE subscriptions
  /\ result' = Returned(TRUE)
  /\ UNCHANGED <<configs, instrument_to_subscription, last_quotes, last_poll_times,
                 scheduler, nextId, clients, history, now>>
  /\ UNCHANGED <<stream, new_order>>

SetStatus(t, subscription_id, status) ==
  /\ Call(t)
  /\ IF subscription_id \in DOMAIN subscriptions
     THEN /\ subscriptions' = [subscriptions EXCEPT ![subscription_id].status = status]
          /\ result' = Returned(TRUE)
     ELSE /\ result' = Returned(FALSE)
          /\ UNCHANGED subscriptions
  /\ UNCHANGED <<configs, instrument_to_subscription, last_quotes, last_poll_times,
                 scheduler, nextId, clients, history, now>>
  /\ UNCHANGED <<stream, new_order>>

\* pause_subscription(subscription_id)
PauseSubscription(t, subscription_id) == SetStatus(t, subscription_id, "PAUSED")

\* resume_subscription(subscription_id)
ResumeSubscription(t, subscription_id) == SetStatus(t, subscription_id, "ACTIVE")

\* a range test that also refuses the two boundary values
FrequencyOutOfRangeStrict(frequency_seconds) ==
  frequency_seconds <= MinFrequency \/ frequency_seconds >= MaxFrequency

\* frequency_seconds < 0.1 or frequency_seconds > 60
FrequencyOutOfRange(frequency_seconds) ==
  frequency_seconds < MinFrequency \/ frequency_seconds > MaxFrequency

\* set_polling_frequency(subscription_id, frequency_seconds)
SetPollingFrequency(t, subscription_id, frequency_seconds) ==
  /\ Call(t)
  /\ IF FrequencyOutOfRange(frequency_seconds)
     THEN /\ result' = Raised("ValueError",
                             "Polling frequency must be between 0.1 and 60 seconds")
          /\ UNCHANGED configs
     ELSE IF subscription_id \in DOMAIN subscriptions
          THEN /\ configs' = [configs EXCEPT
                    ![subscriptions[subscription_id].config].polling_frequency_seconds =
                      frequency_seconds]
               /\ result' = Returned(TRUE)
          ELSE /\ result' = Returned(FALSE)
               /\ UNCHANGED configs
  /\ UNCHANGED <<subscriptions, instrument_to_subscription, last_quotes,
                 last_poll_times, scheduler, nextId, clients, history, now>>
  /\ UNCHANGED <<stream, new_order>>

\* get_subscription_info(subscription_id): <<>> is None
GetSubscriptionInfo(subscription_id) ==
  IF subscription_id \in DOMAIN subscriptions
  THEN LET sub == subscriptions[subscription_id]
       IN << [id |-> sub.id, instruments |-> sub.instruments, status |-> sub.status,
              polling_frequency |-> ConfigOf(sub).polling_frequency_seconds,
              retry_on_error |-> ConfigOf(sub).retry_on_error,
              max_retries |-> ConfigOf(sub).max_retries] >>
  ELSE <<>>

\* ------------------------------------------------------------ start, stop
\* start(), called by the client
Start(t) ==
  /\ Call(t)
  /\ StartCheck(t, 0)
  /\ UNCHANGED <<registry, scheduler, nextId, join_deadline, history, now>>
  /\ UNCHANGED <<stream, new_order>>

\* start(): clear the stop event, create the thread and start it; start returns,
\* and subscribe with the id in hand
StartSpawn(t) ==
  /\ cpc[t] = "spawn"
  /\ budget.threads > 0
  /\ budget' = [budget EXCEPT !.threads = @ - 1]
  /\ nthreads' = nthreads + 1
  /\ stop_event' = FALSE
  /\ thread' = nthreads'
  /\ workers' = Put(workers, nthreads', [NoWorker EXCEPT !.pc = "run"])
  /\ cpc' = [cpc EXCEPT ![t] = "idle"]
  /\ cid' = [cid EXCEPT ![t] = 0]
  /\ result' = IF cid[t] # 0 THEN ReturnedId(cid[t]) ELSE ReturnedNone
  /\ UNCHANGED <<registry, polling_task, executor_shutdown, cancel_requested,
                 nextId, join_deadline, history, now>>
  /\ UNCHANGED <<stream, new_order>>

\* a further stop() of a client that has made its calls
CallAgain(t) ==
  /\ cpc[t] = "idle"
  /\ budget.calls[t] = 0
  /\ budget.stops > 0
  /\ budget' = [budget EXCEPT !.stops = @ - 1]

\* stop(): set the stop event and cancel the polling task of an open loop
Stop(t) ==
  /\ Call(t) \/ CallAgain(t)
  /\ stop_event' = TRUE
  /\ cancel_requested' = IF IsAlive(polling_task)
                         THEN cancel_requested \cup {polling_task}
                         ELSE cancel_requested
  /\ cpc' = [cpc EXCEPT ![t] = "join"]
  /\ join_deadline' = [join_deadline EXCEPT ![t] = now + JoinTimeout]
  /\ UNCHANGED <<registry, thread, polling_task, executor_shutdown, workers,
                 nthreads, nextId, cid, result, history, now>>
  /\ UNCHANGED <<stream, new_order>>

\* self.thread.join(timeout=5) returns: no thread, the thread ended, or 5 s went by
Joined(t) == ~IsAlive(thread) \/ now >= join_deadline[t]

\* stop(): self.thread.join, then shut the executor down
StopJoin(t) ==
  /\ cpc[t] = "join"
  /\ Joined(t)
  /\ executor_shutdown' = TRUE
  /\ cpc' = [cpc EXCEPT ![t] = "idle"]
  /\ join_deadline' = [join_deadline EXCEPT ![t] = 0]
  /\ result' = ReturnedNone
  /\ UNCHANGED <<registry, thread, polling_task, stop_event, cancel_requested,
                 workers, nthreads, nextId, cid, history, budget, now>>
  /\ UNCHANGED <<stream, new_order>>


\* ------------------------------------------------------- the polling worker
\* the fields of a config that _fetch_quotes_with_retry reads
RetryPolicy(config) ==
  [retry_on_error |-> config.retry_on_error, max_retries |-> config.max_retries,
   exponential_backoff |-> config.exponential_backoff]

RECURSIVE ConfigGroups(_, _)
\* _poll_all_subscriptions: the active subscriptions grouped by frequency. A group
\* keeps what the poll reads of its Subscription objects later on: id, instruments,
\* and the retry fields of the first member's config, which nothing ever changes.
ConfigGroups(active, groups) ==
  IF active = <<>> THEN groups
  ELSE LET sub == subscriptions[Head(active)]
           freq == ConfigOf(sub).polling_frequency_seconds
           entry == [id |-> sub.id, instruments |-> sub.instruments]
           at == {g \in 1..Len(groups) : groups[g].frequency = freq}
       IN IF at = {}
          THEN ConfigGroups(Tail(active),
                 Append(groups, [frequency |-> freq, subs |-> <<entry>>,
                                 config |-> RetryPolicy(ConfigOf(sub))]))
          ELSE ConfigGroups(Tail(active),
                 [groups EXCEPT ![CHOOSE g \in at : TRUE].subs = Append(@, entry)])

\* a test that looks only for members without a poll on record
ShouldPollUnpolled(group, current_time) ==
  \E i \in 1..Len(group.subs) : group.subs[i].id \notin DOMAIN last_poll_times

\* should_poll: some member was never polled or was polled frequency ago
ShouldPoll(group, current_time) ==
  \E i \in 1..Len(group.subs) :
     LET id == group.subs[i].id
     IN \/ id \notin DOMAIN last_poll_times
        \/ current_time - last_poll_times[id] >= group.frequency

RECURSIVE Work(_)
\* for sub in subscriptions: for instrument in sub.instruments
Work(subs) ==
  IF subs = <<>> THEN <<>>
  ELSE [i \in 1..Len(Head(subs).instruments) |->
          [id |-> Head(subs).id, instrument |-> Head(subs).instruments[i]]]
       \o Work(Tail(subs))

RECURSIVE Unique(_, _, _)
Unique(work, i, all_instruments) ==
  IF i > Len(work) THEN all_instruments
  ELSE IF Key(work[i].instrument) \in Keys(all_instruments)
       THEN Unique(work, i + 1, all_instruments)
       ELSE Unique(work, i + 1, Append(all_instruments, work[i].instrument))

\* a request that lists the instruments of every member as they come
AllWatched(subs) == [i \in 1..Len(Work(subs)) |-> Work(subs)[i].instrument]

\* _poll_subscription_group: the instruments of the members, each key once
AllInstruments(subs) == Unique(Work(subs), 1, <<>>)

\* what get_quotes_func can return for a request: nothing, or a quote per
\* instrument at the prices of one market state
Responses(instruments) ==
  {<<>>} \cup
  { [i \in 1..Len(instruments) |->
       [instrument |-> instruments[i], last |-> p.last, bid |-> p.bid,
        ask |-> p.ask]] : p \in Prices }

RECURSIVE QuoteMap(_, _, _)
\* _poll_subscription_group: quote_map
QuoteMap(quotes, i, quote_map) ==
  IF i > Len(quotes) THEN quote_map
  ELSE QuoteMap(quotes, i + 1, Put(quote_map, Key(quotes[i].instrument), quotes[i]))

\* a change detector that names every field as soon as one differs
DetectAnyChange(instrument, old_quote, new_quote) ==
  IF old_quote.last # new_quote.last \/ old_quote.bid # new_quote.bid
     \/ old_quote.ask # new_quote.ask
  THEN << [instrument |-> instrument, old_quote |-> old_quote,
           new_quote |-> new_quote, changed_fields |-> <<"last", "bid", "ask">>] >>
  ELSE <<>>

\* a change detector that does not look at last
DetectBidAskChange(instrument, old_quote, new_quote) ==
  LET changed_fields ==
        (IF old_quote.bid # new_quote.bid THEN <<"bid">> ELSE <<>>)
        \o (IF old_quote.ask # new_quote.ask THEN <<"ask">> ELSE <<>>)
  IN IF changed_fields # <<>>
     THEN << [instrument |-> instrument, old_quote |-> old_quote,
              new_quote |-> new_quote, changed_fields |-> changed_fields] >>
     ELSE <<>>

\* _detect_price_change: <<>> is None, <<c>> a PriceChange
DetectPriceChange(instrument, old_quote, new_quote) ==
  LET changed_fields ==
        (IF old_quote.last # new_quote.last THEN <<"last">> ELSE <<>>)
        \o (IF old_quote.bid # new_quote.bid THEN <<"bid">> ELSE <<>>)
        \o (IF old_quote.ask # new_quote.ask THEN <<"ask">> ELSE <<>>)
  IN IF changed_fields # <<>>
     THEN << [instrument |-> instrument, old_quote |-> old_quote,
              new_quote |-> new_quote, changed_fields |-> changed_fields] >>
     ELSE <<>>

\* except (ConnectionError, TimeoutError, ValueError, TypeError) in _fetch_quotes_with_retry
FetchCatches(e) == e \in {"ConnectionError", "TimeoutError", "ValueError", "TypeError"}

\* except (RuntimeError, ValueError, TypeError) in _polling_loop
LoopCatches(e) == e \in {"RuntimeError", "ValueError", "TypeError"}

\* except (RuntimeError, TypeError, ValueError) in _execute_callback
CallbackCatches(e) == e \in {"RuntimeError", "TypeError", "ValueError"}

\* a polling loop that swallows what ends it and tests the stop event again
EndsSwallowed(w) ==
  /\ workers' = [workers EXCEPT ![w] = [NoWorker EXCEPT !.pc = "poll"]]
  /\ cancel_requested' = cancel_requested \ {w}

\* the worker's thread ends: the loop is closed, the thread no longer alive
Ends(w) ==
  /\ workers' = [workers EXCEPT ![w] = Finished]
  /\ cancel_requested' = cancel_requested \ {w}

\* an exception raised inside _poll_all_subscriptions reaches _polling_loop: it is
\* logged and the loop sleeps 1 s, or it ends the task, the loop and the thread
Propagates(w, e) ==
  IF LoopCatches(e)
  THEN /\ workers' = [workers EXCEPT ![w] =
             [NoWorker EXCEPT !.pc = "error_sleep", !.wake = now + ErrorSleep]]
       /\ UNCHANGED cancel_requested
  ELSE Ends(w)

\* _polling_loop: min_frequency, taken under the lock
MinPollingFrequency ==
  LET active == {i \in DOMAIN subscriptions : subscriptions[i].status = "ACTIVE"}
      RECURSIVE MinOver(_, _)
      MinOver(ids, m) ==
        IF ids = <<>> THEN m
        ELSE MinOver(Tail(ids),
               Min2(m, ConfigOf(subscriptions[Head(ids)]).polling_frequency_seconds))
  IN MinOver(Ascending(active), configs[0].polling_frequency_seconds)

\* _run_event_loop: self.loop and self.polling_task are set
Run(w) ==
  /\ workers[w].pc = "run"
  /\ polling_task' = w
  /\ workers' = [workers EXCEPT ![w].pc = "poll"]
  /\ UNCHANGED <<registry, thread, stop_event, executor_shutdown, cancel_requested,
                 nthreads, client_side, fetched, invoked, budget, now>>
  /\ UNCHANGED <<stream, new_order>>

\* _polling_loop tests the stop event; _poll_all_subscriptions takes its snapshot
\* of the active subscriptions under the lock and groups them
PollAll(w) ==
  /\ workers[w].pc = "poll"
  /\ IF stop_event
     THEN Ends(w)
     ELSE /\ workers' = [workers EXCEPT ![w] =
                [NoWorker EXCEPT !.pc = "group", !.gi = 1,
                        !.groups = ConfigGroups(GetActiveSubscriptions, <<>>)]]
          /\ UNCHANGED cancel_requested
  /\ UNCHANGED <<registry, thread, polling_task, stop_event, executor_shutdown,
                 nthreads, client_side, fetched, invoked, budget, now>>
  /\ UNCHANGED <<stream, new_order>>

\* _poll_all_subscriptions: the next group, polled if it is due; after the last
\* one _polling_loop takes min_frequency under the lock and sleeps
Group(w) ==
  /\ workers[w].pc = "group"
  /\ LET wk == workers[w]
     IN workers' = [workers EXCEPT ![w] =
          IF wk.gi > Len(wk.groups)
          THEN [NoWorker EXCEPT !.pc = "sleep", !.wake = now + MinPollingFrequency]
          ELSE IF ~ShouldPoll(wk.groups[wk.gi], now)
               THEN [wk EXCEPT !.gi = wk.gi + 1]
               ELSE IF AllInstruments(wk.groups[wk.gi].subs) = <<>>
                    THEN [wk EXCEPT !.pc = "mark", !.current_time = now]
                    ELSE [wk EXCEPT !.pc = "fetch", !.current_time = now,
                                    !.retries = 0, !.backoff = InitialBackoff]]
  /\ UNCHANGED <<registry, thread, polling_task, stop_event, executor_shutdown,
                 cancel_requested, nthreads, client_side, fetched, invoked, budget,
                 now>>
  /\ UNCHANGED <<stream, new_order>>

\* the environment lets get_quotes_func be called once more
Fetching(w) ==
  /\ workers[w].pc = "fetch"
  /\ ~executor_shutdown
  /\ budget.fetches > 0
  /\ budget' = [budget EXCEPT !.fetches = @ - 1]

\* _fetch_quotes_with_retry: get_quotes_func returns; _poll_subscription_group
\* builds quote_map, or returns when there are no quotes
FetchReturns(w, quotes) ==
  /\ Fetching(w)
  /\ workers' = [workers EXCEPT ![w] =
        IF quotes = <<>>
        THEN [@ EXCEPT !.pc = "mark", !.retries = 0, !.backoff = 0]
        ELSE [@ EXCEPT !.pc = "compare", !.retries = 0, !.backoff = 0, !.wi = 1,
                       !.quote_map = QuoteMap(quotes, 1, Empty),
                       !.before = IF budget.history THEN last_quotes ELSE Empty,
                       !.logged = Len(invoked)]]
  /\ fetched' = IF quotes = <<>> THEN fetched
                ELSE Record(fetched, QuoteMap(quotes, 1, Empty))
  /\ UNCHANGED <<registry, thread, polling_task, stop_event, executor_shutdown,
                 cancel_requested, nthreads, client_side, invoked, now>>
  /\ UNCHANGED <<stream, new_order>>

\* a fetch that allows one retry more than max_retries
GivesUpLate(config, retries) == ~config.retry_on_error \/ retries > config.max_retries

\* if not config.retry_on_error or retries >= config.max_retries: return []
GivesUp(config, retries) == ~config.retry_on_error \/ retries >= config.max_retries

\* a backoff that grows by a constant
Lengthened(backoff) == backoff + InitialBackoff

\* backoff *= 2
Doubled(backoff) == backoff * 2

\* the time slept before the next attempt
Delay(config, backoff) == IF config.exponential_backoff THEN backoff ELSE RetrySleep

\* _fetch_quotes_with_retry: get_quotes_func raises e
FetchRaises(w, e) ==
  /\ Fetching(w)
  /\ LET wk == workers[w]
         config == wk.groups[wk.gi].config
     IN IF FetchCatches(e)
        THEN /\ workers' = [workers EXCEPT ![w] =
                  IF GivesUp(config, wk.retries)
                  THEN [wk EXCEPT !.pc = "mark", !.retries = 0, !.backoff = 0]
                  ELSE [wk EXCEPT !.pc = "backoff", !.retries = wk.retries + 1,
                          !.wake = now + Delay(config, wk.backoff),
                          !.backoff = IF config.exponential_backoff
                                      THEN Doubled(wk.backoff) ELSE wk.backoff]]
             /\ UNCHANGED cancel_requested
        ELSE Propagates(w, e)
  /\ UNCHANGED <<registry, thread, polling_task, stop_event, executor_shutdown,
                 nthreads, client_side, fetched, invoked, now>>
  /\ UNCHANGED <<stream, new_order>>

\* _fetch_quotes_with_retry after stop(): run_in_executor on the executor that was
\* shut down raises RuntimeError and get_quotes_func is not called
FetchRefused(w) ==
  /\ workers[w].pc = "fetch"
  /\ executor_shutdown
  /\ IF FetchCatches("RuntimeError")
     THEN /\ workers' = [workers EXCEPT ![w].pc = "mark"]
          /\ UNCHANGED cancel_requested
     ELSE Propagates(w, "RuntimeError")
  /\ UNCHANGED <<registry, thread, polling_task, stop_event, executor_shutdown,
                 nthreads, client_side, fetched, invoked, budget, now>>
  /\ UNCHANGED <<stream, new_order>>

\* the worker after the pair at wi was dealt with
Advanced(wk) ==
  IF wk.wi + 1 > Len(Work(wk.groups[wk.gi].subs))
  THEN [wk EXCEPT !.pc = "mark", !.wi = 0, !.change = <<>>]
  ELSE [wk EXCEPT !.pc = "compare", !.wi = wk.wi + 1, !.change = <<>>]

\* _poll_subscription_group: one (sub, instrument) of the loop, up to the callback
Compare(w) ==
  /\ workers[w].pc = "compare"
  /\ LET wk == workers[w]
         item == Work(wk.groups[wk.gi].subs)[wk.wi]
         key == Key(item.instrument)
         price_change ==
           IF key \in DOMAIN wk.quote_map /\ key \in DOMAIN last_quotes
           THEN DetectPriceChange(item.instrument, last_quotes[key], wk.quote_map[key])
           ELSE <<>>
     IN IF key \notin DOMAIN wk.quote_map
        THEN /\ workers' = [workers EXCEPT ![w] = Advanced(wk)]
             /\ UNCHANGED last_quotes
        ELSE IF price_change # <<>>
             THEN /\ workers' = [workers EXCEPT ![w] =
                        [wk EXCEPT !.pc = "callback", !.change = price_change]]
                  /\ UNCHANGED last_quotes
             ELSE /\ last_quotes' = Put(last_quotes, key, wk.quote_map[key])
                  /\ workers' = [workers EXCEPT ![w] = Advanced(wk)]
  /\ UNCHANGED <<subscriptions, configs, instrument_to_subscription, last_poll_times,
                 thread, polling_task, stop_event, executor_shutdown,
                 cancel_requested, nthreads, client_side, fetched, invoked, budget,
                 now>>
  /\ UNCHANGED <<stream, new_order>>

\* _execute_callback ends with outcome ("RuntimeError" without a call when the
\* executor was shut down), then self.last_quotes[key] = new_quote
ExecuteCallback(w, outcome) ==
  /\ workers[w].pc = "callback"
  /\ executor_shutdown => outcome = "RuntimeError"
  /\ ~executor_shutdown => outcome \in CallbackOutcomes
  /\ LET wk == workers[w]
         item == Work(wk.groups[wk.gi].subs)[wk.wi]
         key == Key(item.instrument)
     IN /\ invoked' = IF executor_shutdown THEN invoked
                      ELSE Record(invoked, [id |-> item.id, change |-> wk.change[1],
                                            outcome |-> outcome])
        /\ IF outcome = "ok" \/ CallbackCatches(outcome)
           THEN /\ last_quotes' = Put(last_quotes, key, wk.quote_map[key])
                /\ workers' = [workers EXCEPT ![w] = Advanced(wk)]
                /\ UNCHANGED cancel_requested
           ELSE /\ Propagates(w, outcome)
                /\ UNCHANGED last_quotes
  /\ UNCHANGED <<subscriptions, configs, instrument_to_subscription, last_poll_times,
                 thread, polling_task, stop_event, executor_shutdown,
                 nthreads, client_side, fetched, budget, now>>
  /\ UNCHANGED <<stream, new_order>>

RECURSIVE MarkPolled(_, _, _, _)
\* for sub in subs: self.last_poll_times[sub.id] = current_time
MarkPolled(times, subs, i, current_time) ==
  IF i > Len(subs) THEN times
  ELSE MarkPolled(Put(times, subs[i].id, current_time), subs, i + 1, current_time)

\* _poll_all_subscriptions: the group was polled
Mark(w) ==
  /\ workers[w].pc = "mark"
  /\ LET wk == workers[w]
     IN /\ last_poll_times' =
             MarkPolled(last_poll_times, wk.groups[wk.gi].subs, 1, wk.current_time)
        /\ workers' = [workers EXCEPT ![w] =
             [NoWorker EXCEPT !.pc = "group", !.groups = wk.groups, !.gi = wk.gi + 1]]
  /\ UNCHANGED <<subscriptions, configs, instrument_to_subscription, last_quotes,
                 thread, polling_task, stop_event, executor_shutdown,
                 cancel_requested, nthreads, client_side, fetched, invoked, budget,
                 now>>
  /\ UNCHANGED <<stream, new_order>>

\* an asyncio.sleep of the worker is over
Wake(w) ==
  /\ workers[w].pc \in {"sleep", "error_sleep", "backoff"}
  /\ now >= workers[w].wake
  /\ workers' = [workers EXCEPT ![w] =
        IF workers[w].pc = "backoff"
        THEN [@ EXCEPT !.pc = "fetch", !.wake = 0]
        ELSE [NoWorker EXCEPT !.pc = "poll"]]
  /\ UNCHANGED <<registry, thread, polling_task, stop_event, executor_shutdown,
                 cancel_requested, nthreads, client_side, fetched, invoked, budget,
                 now>>
  /\ UNCHANGED <<stream, new_order>>

\* the cancelled task gets CancelledError at the await it is suspended in;
\* _run_event_loop swallows it and closes the loop
Cancelled(w) ==
  /\ w \in cancel_requested
  /\ workers[w].pc \in {"fetch", "backoff", "callback", "sleep", "error_sleep"}
  /\ Ends(w)
  /\ UNCHANGED <<registry, thread, polling_task, stop_event, executor_shutdown,
                 nthreads, client_side, fetched, invoked, budget, now>>
  /\ UNCHANGED <<stream, new_order>>

\* time passes
Advance(d) ==
  /\ budget.ticks > 0
  /\ budget' = [budget EXCEPT !.ticks = @ - 1]
  /\ now' = now + d
  /\ UNCHANGED <<registry, scheduler, client_side, fetched, invoked>>
  /\ UNCHANGED <<stream, new_order>>

\* ------------------------------------------------------------------- Next
Next ==
  \/ \E t \in Clients, instruments \in InstrumentLists,
        config \in {NoConfig} \cup CustomConfigs : Subscribe(t, instruments, config)
  \/ \E t \in Clients, id \in 1..MaxSubs : Unsubscribe(t, id)
  \/ \E t \in Clients : UnsubscribeAll(t)
  \/ \E t \in Clients, id \in 1..MaxSubs : PauseSubscription(t, id)
  \/ \E t \in Clients, id \in 1..MaxSubs : ResumeSubscription(t, id)
  \/ \E t \in Clients, id \in 1..MaxSubs, f \in FrequencyArgs :
        SetPollingFrequency(t, id, f)
  \/ \E t \in Clients : Start(t)
  \/ \E t \in Clients : StartSpawn(t)
  \/ \E t \in Clients : Stop(t)
  \/ \E t \in Clients : StopJoin(t)
  \/ \E w \in DOMAIN workers : Run(w)
  \/ \E w \in DOMAIN workers : PollAll(w)
  \/ \E w \in DOMAIN workers : Group(w)
  \/ \E w \in DOMAIN workers :
        \E quotes \in Responses(AllInstruments(
               IF workers[w].pc = "fetch"
               THEN workers[w].groups[workers[w].gi].subs ELSE <<>>)) :
           FetchReturns(w, quotes)
  \/ \E w \in DOMAIN workers, e \in FetchErrors : FetchRaises(w, e)
  \/ \E w \in DOMAIN workers : FetchRefused(w)
  \/ \E w \in DOMAIN workers : Compare(w)
  \/ \E w \in DOMAIN workers, outcome \in CallbackOutcomes \cup {"RuntimeError"} :
        ExecuteCallback(w, outcome)
  \/ \E w \in DOMAIN workers : Mark(w)
  \/ \E w \in DOMAIN workers : Wake(w)
  \/ \E w \in DOMAIN workers : Cancelled(w)
  \/ \E d \in AdvanceSteps : Advance(d)

\* the subscriptions of one client under every retry policy, and the worker
NextRetry ==
  \/ \E t \in Clients, instruments \in RetryInstruments,
        config \in {NoConfig} \cup RetryConfigs : Subscribe(t, instruments, config)
  \/ \E t \in Clients : StartSpawn(t)
  \/ \E w \in DOMAIN workers : Run(w)
  \/ \E w \in DOMAIN workers : PollAll(w)
  \/ \E w \in DOMAIN workers : Group(w)
  \/ \E w \in DOMAIN workers :
        \E quotes \in Responses(AllInstruments(
               IF workers[w].pc = "fetch"
               THEN workers[w].groups[workers[w].gi].subs ELSE <<>>)) :
           FetchReturns(w, quotes)
  \/ \E w \in DOMAIN workers, e \in FetchErrors : FetchRaises(w, e)
  \/ \E w \in DOMAIN workers : Compare(w)
  \/ \E w \in DOMAIN workers, outcome \in CallbackOutcomes \cup {"RuntimeError"} :
        ExecuteCallback(w, outcome)
  \/ \E w \in DOMAIN workers : Mark(w)
  \/ \E w \in DOMAIN workers : Wake(w)
  \/ \E d \in RetrySteps : Advance(d)

SpecRetry == InitRetry /\ [][NextRetry]_vars

\* a manager in its second poll of one subscription for AAPL: a quote is cached from
\* the first poll, get_quotes_func has returned another, and the worker comes to
\* compare the two
InitDetect ==
  /\ StreamConstructed
  /\ stream_budget = NoStream
  /\ OrderConstructed
  /\ order_budget = NoOrder
  /\ budget = NoBudget
  /\ subscriptions = (1 :> [id |-> 1, instruments |-> <<AAPL>>, status |-> "ACTIVE",
                            config |-> 0])
  /\ configs = (0 :> DefaultConfig)
  /\ instrument_to_subscription = (Key(AAPL) :> {1})
  /\ \E old_quote \in QuotesOf(AAPL) : last_quotes = (Key(AAPL) :> old_quote)
  /\ last_poll_times = (1 :> 0)
  /\ thread = 1
  /\ polling_task = 1
  /\ stop_event = FALSE
  /\ executor_shutdown = FALSE
  /\ cancel_requested = {}
  /\ \E new_quote \in QuotesOf(AAPL) :
        workers = (1 :> [NoWorker EXCEPT
                          !.pc = "compare",
                          !.groups = << [frequency |->
                                           DefaultConfig.polling_frequency_seconds,
                                         subs |-> << [id |-> 1,
                                                      instruments |-> <<AAPL>>] >>,
                                         config |-> RetryPolicy(DefaultConfig)] >>,
                          !.gi = 1, !.wi = 1,
                          !.current_time = DefaultConfig.polling_frequency_seconds,
                          !.quote_map = (Key(AAPL) :> new_quote)])
  /\ nthreads = 1
  /\ nextId = 2
  /\ cpc = [t \in Clients |-> "idle"]
  /\ cid = [t \in Clients |-> 0]
  /\ join_deadline = [t \in Clients |-> 0]
  /\ result = ReturnedId(1)
  /\ issued = <<1>>
  /\ unsubscribed = {}
  /\ fetched = <<>>
  /\ invoked = <<>>
  /\ now = DefaultConfig.polling_frequency_seconds

\* two clients, one of which makes a single call
InitNarrow ==
  /\ Constructed
  /\ StreamConstructed
  /\ stream_budget = NoStream
  /\ OrderConstructed
  /\ order_budget = NoOrder
  /\ budget = [calls |-> [t \in Clients |->
                            IF t = "c1" THEN NarrowCalls ELSE NarrowOtherCalls],
               fetches |-> NarrowFetches, ticks |-> NarrowTicks,
               threads |-> NarrowThreads, history |-> FALSE, stops |-> 0]

SpecNarrow == InitNarrow /\ [][Next]_vars

\* two clients that make two calls each
InitChurn ==
  /\ Constructed
  /\ StreamConstructed
  /\ stream_budget = NoStream
  /\ OrderConstructed
  /\ order_budget = NoOrder
  /\ budget = [calls |-> [t \in Clients |-> ChurnCalls], fetches |-> ChurnFetches,
               ticks |-> ChurnTicks, threads |-> ChurnThreads, history |-> FALSE,
               stops |-> 0]

\* clients that subscribe to AAPL under the default config, unsubscribe and set
\* frequencies, and the worker
NextChurn ==
  \/ \E t \in Clients, instruments \in RetryInstruments :
        Subscribe(t, instruments, NoConfig)
  \/ \E t \in Clients, id \in 1..MaxSubs : Unsubscribe(t, id)
  \/ \E t \in Clients : UnsubscribeAll(t)
  \/ \E t \in Clients, id \in 1..MaxSubs, f \in ChurnFrequencies :
        SetPollingFrequency(t, id, f)
  \/ \E t \in Clients : StartSpawn(t)
  \/ \E w \in DOMAIN workers : Run(w)
  \/ \E w \in DOMAIN workers : PollAll(w)
  \/ \E w \in DOMAIN workers : Group(w)
  \/ \E w \in DOMAIN workers :
        \E quotes \in Responses(AllInstruments(
               IF workers[w].pc = "fetch"
               THEN workers[w].groups[workers[w].gi].subs ELSE <<>>)) :
           FetchReturns(w, quotes)
  \/ \E w \in DOMAIN workers : Compare(w)
  \/ \E w \in DOMAIN workers, outcome \in CallbackOutcomes :
        ExecuteCallback(w, outcome)
  \/ \E w \in DOMAIN workers : Mark(w)
  \/ \E w \in DOMAIN workers : Wake(w)
  \/ \E d \in AdvanceSteps : Advance(d)

SpecChurn == InitChurn /\ [][NextChurn]_vars

\* a client that subscribes, starts and stops
InitRestart ==
  /\ Constructed
  /\ StreamConstructed
  /\ stream_budget = NoStream
  /\ OrderConstructed
  /\ order_budget = NoOrder
  /\ budget = [calls |-> [t \in Clients |-> IF t = "c1" THEN RestartCalls ELSE 0],
               fetches |-> RestartFetches, ticks |-> RestartTicks,
               threads |-> RestartThreads, history |-> FALSE, stops |-> 0]

\* one client that subscribes, starts and stops, and the workers
NextRestart ==
  \/ \E t \in Clients, instruments \in RetryInstruments :
        Subscribe(t, instruments, NoConfig)
  \/ \E t \in Clients : Start(t)
  \/ \E t \in Clients : StartSpawn(t)
  \/ \E t \in Clients : Stop(t)
  \/ \E t \in Clients : StopJoin(t)
  \/ \E w \in DOMAIN workers : Run(w)
  \/ \E w \in DOMAIN workers : PollAll(w)
  \/ \E w \in DOMAIN workers : Group(w)
  \/ \E w \in DOMAIN workers :
        \E quotes \in Responses(AllInstruments(
               IF workers[w].pc = "fetch"
               THEN workers[w].groups[workers[w].gi].subs ELSE <<>>)) :
           FetchReturns(w, quotes)
  \/ \E w \in DOMAIN workers, e \in FetchErrors : FetchRaises(w, e)
  \/ \E w \in DOMAIN workers : FetchRefused(w)
  \/ \E w \in DOMAIN workers : Compare(w)
  \/ \E w \in DOMAIN workers, outcome \in CallbackOutcomes \cup {"RuntimeError"} :
        ExecuteCallback(w, outcome)
  \/ \E w \in DOMAIN workers : Mark(w)
  \/ \E w \in DOMAIN workers : Wake(w)
  \/ \E w \in DOMAIN workers : Cancelled(w)
  \/ \E d \in AdvanceSteps : Advance(d)

SpecRestart == InitRestart /\ [][NextRestart]_vars

\* the comparison of a cached quote with a fetched one, and what follows it
NextDetect ==
  \/ \E w \in DOMAIN workers : Compare(w)
  \/ \E w \in DOMAIN workers, outcome \in CallbackOutcomes : ExecuteCallback(w, outcome)
  \/ \E w \in DOMAIN workers : Mark(w)

SpecDetect == InitDetect /\ [][NextDetect]_vars

\* many client calls around one fetch
Spec == Init /\ [][Next]_vars

\* few client calls, several poll cycles of one worker
SpecPolling == InitPolling /\ [][Next]_vars

\* one call per client, two worker threads: start() racing with start()
SpecRace == InitRace /\ [][Next]_vars

\* a step of worker thread w
WorkerStep(w) ==
  \/ Run(w)
  \/ PollAll(w)
  \/ Group(w)
  \/ \E quotes \in Responses(AllInstruments(
             IF workers[w].pc = "fetch"
             THEN workers[w].groups[workers[w].gi].subs ELSE <<>>)) :
        FetchReturns(w, quotes)
  \/ \E e \in FetchErrors : FetchRaises(w, e)
  \/ FetchRefused(w)
  \/ Compare(w)
  \/ \E outcome \in CallbackOutcomes \cup {"RuntimeError"} : ExecuteCallback(w, outcome)
  \/ Mark(w)
  \/ Wake(w)
  \/ Cancelled(w)

\* a started thread is scheduled, the event loop resumes its task, and a join on a
\* thread that ended returns
SpecStop ==
  /\ InitStop
  /\ [][Next]_vars
  /\ WF_vars(\E w \in DOMAIN workers : WorkerStep(w))
  /\ \A t \in Clients : WF_vars(StopJoin(t))

\* one client that subscribes and pauses, and the workers
InitLive ==
  /\ Constructed
  /\ StreamConstructed
  /\ stream_budget = NoStream
  /\ OrderConstructed
  /\ order_budget = NoOrder
  /\ budget = [calls |-> [t \in Clients |-> IF t = "c1" THEN LiveCalls ELSE 0],
               fetches |-> LiveFetches, ticks |-> LiveTicks,
               threads |-> LiveThreads, history |-> FALSE, stops |-> 0]

NextLive ==
  \/ \E t \in Clients, instruments \in RetryInstruments :
        Subscribe(t, instruments, NoConfig)
  \/ \E t \in Clients, id \in 1..MaxSubs : PauseSubscription(t, id)
  \/ \E t \in Clients : StartSpawn(t)
  \/ \E w \in DOMAIN workers : Run(w)
  \/ \E w \in DOMAIN workers : PollAll(w)
  \/ \E w \in DOMAIN workers : Group(w)
  \/ \E w \in DOMAIN workers :
        \E quotes \in Responses(AllInstruments(
               IF workers[w].pc = "fetch"
               THEN workers[w].groups[workers[w].gi].subs ELSE <<>>)) :
           FetchReturns(w, quotes)
  \/ \E w \in DOMAIN workers, e \in FetchErrors : FetchRaises(w, e)
  \/ \E w \in DOMAIN workers : Compare(w)
  \/ \E w \in DOMAIN workers, outcome \in CallbackOutcomes \cup {"RuntimeError"} :
        ExecuteCallback(w, outcome)
  \/ \E w \in DOMAIN workers : Mark(w)
  \/ \E w \in DOMAIN workers : Wake(w)
  \/ \E d \in AdvanceSteps : Advance(d)

\* a sleep of a worker that is not over yet
Sleeps(w) ==
  /\ workers[w].pc \in {"sleep", "error_sleep", "backoff"}
  /\ now < workers[w].wake

\* a started thread is scheduled and the event loop resumes its task, the thread
\* start() creates is started, and the clock advances under a sleeping worker
SpecLive ==
  /\ InitLive
  /\ [][NextLive]_vars
  /\ WF_vars(\E w \in DOMAIN workers : WorkerStep(w))
  /\ \A t \in Clients : WF_vars(StartSpawn(t))
  /\ WF_vars(\E d \in AdvanceSteps :
               Advance(d) /\ \E w \in DOMAIN workers : Sleeps(w))

\* -------------------------------------------------------- AsyncPriceStream
\* what the caller of price_generator passes as on_error
OnErrorArgs == {"None", "callback"}
\* what a call of the on_error callback does
OnErrorOutcomes == {"returns", "raises"}
\* what the await of get_quotes can raise; CancelledError is not an Exception
StreamErrors == {"RuntimeError", "ConnectionError", "CancelledError"}

\* an async generator object: its arguments, where it is suspended, its locals,
\* and what it did so far (returned: what its get_quotes calls returned;
\* produced: the items it yielded, each with the number of the fetch it came from)
NewGenerator(subscription_id, on_error) ==
  [subscription_id |-> subscription_id, on_error |-> on_error, pc |-> "created",
   symbols |-> {}, item |-> Empty, raised |-> "", fetches |-> 0, logged |-> 0,
   reported |-> <<>>, returned |-> <<>>, produced |-> <<>>]

\* a history of the stream with one more event, where histories are kept
StreamRecord(log, event) == IF stream_budget.history THEN Append(log, event) ELSE log

\* {inst.symbol for inst in instruments}
Symbols(instruments) == {instruments[i].symbol : i \in 1..Len(instruments)}

\* async with self._lock: a block without an await; it is entered when the lock
\* is free (a held lock suspends the caller) and leaving it releases the lock
WithLock ==
  /\ ~stream_lock
  /\ stream_lock' = FALSE

\* a loop that awaits get_quotes inside the block, the lock still held
LoopTopLockHeld ==
  /\ ~stream_lock
  /\ stream_lock' = TRUE

\* price_generator, the block at the top of the while loop: it is left, and the
\* lock released, before get_quotes is awaited
LoopTopLock == WithLock

\* subscribe(instruments)
StreamSubscribe(instruments) ==
  /\ stream_budget.subscribes > 0
  /\ WithLock
  /\ stream_budget' = [stream_budget EXCEPT !.subscribes = @ - 1]
  /\ stream_subscriptions' =
       Put(stream_subscriptions, stream_next, Symbols(instruments))
  /\ stream_running' = stream_running \cup {stream_next}
  /\ stream_next' = stream_next + 1
  /\ UNCHANGED <<stream_last_quotes, generators, manager, new_order>>

\* an unsubscribe that leaves the id in the running set
DiscardNothing(running, subscription_id) == running

\* self._running.discard(subscription_id)
Discard(running, subscription_id) == running \ {subscription_id}

\* unsubscribe(subscription_id)
StreamUnsubscribe(subscription_id) ==
  /\ stream_budget.removals > 0
  /\ WithLock
  /\ stream_budget' = [stream_budget EXCEPT !.removals = @ - 1]
  /\ stream_running' = Discard(stream_running, subscription_id)
  /\ stream_subscriptions' =
       IF subscription_id \in DOMAIN stream_subscriptions
       THEN Remove(stream_subscriptions, subscription_id)
       ELSE stream_subscriptions
  /\ UNCHANGED <<stream_last_quotes, generators, stream_next, manager, new_order>>

\* unsubscribe_all()
StreamUnsubscribeAll ==
  /\ stream_budget.removals > 0
  /\ WithLock
  /\ stream_budget' = [stream_budget EXCEPT !.removals = @ - 1]
  /\ stream_running' = {}
  /\ stream_subscriptions' = Empty
  /\ UNCHANGED <<stream_last_quotes, generators, stream_next, manager, new_order>>

\* get_active_subscriptions()
StreamActiveSubscriptions == Ascending(DOMAIN stream_subscriptions)

\* price_generator(subscription_id, on_error): the call only creates the generator
PriceGenerator(subscription_id, on_error) ==
  /\ stream_budget.generators > 0
  /\ stream_budget' = [stream_budget EXCEPT !.generators = @ - 1]
  /\ generators' = Append(generators, NewGenerator(subscription_id, on_error))
  /\ UNCHANGED <<stream_subscriptions, stream_last_quotes, stream_running,
                 stream_next, stream_lock, manager, new_order>>

\* a first step that takes every id for a registered one
RegisteredAlways(subscription_id) == TRUE

\* subscription_id in self._subscriptions
Registered(subscription_id) == subscription_id \in DOMAIN stream_subscriptions

\* price_generator, top of the while loop: the generator ends when the id is not
\* running, else it reads the symbols and awaits get_quotes
LoopTop(gen) ==
  IF gen.subscription_id \notin stream_running
  THEN [gen EXCEPT !.pc = "ended", !.symbols = {}]
  ELSE [gen EXCEPT !.pc = "fetch", !.fetches = @ + 1,
          !.symbols = IF gen.subscription_id \in DOMAIN stream_subscriptions
                      THEN stream_subscriptions[gen.subscription_id] ELSE {}]

\* the generator goes on as gen; a get_quotes call is taken from the budget
Proceeds(g, gen) ==
  /\ generators' = [generators EXCEPT ![g] = gen]
  /\ IF gen.pc = "fetch" /\ generators[g].pc # "fetch"
     THEN /\ stream_budget.fetches > 0
          /\ stream_budget' = [stream_budget EXCEPT !.fetches = @ - 1]
     ELSE UNCHANGED stream_budget

\* the consumer asks for the next item: a new generator tests the id and enters
\* the loop, one suspended at its yield starts the delay
Anext(g) ==
  /\ generators[g].pc \in {"created", "item"}
  /\ IF generators[g].pc = "item" THEN UNCHANGED stream_lock
     ELSE IF Registered(generators[g].subscription_id) THEN LoopTopLock ELSE WithLock
  /\ LET gen == generators[g]
     IN Proceeds(g, IF gen.pc = "item"
                    THEN [gen EXCEPT !.pc = "sleep", !.item = Empty]
                    ELSE IF ~Registered(gen.subscription_id)
                         THEN [gen EXCEPT !.pc = "raised", !.raised = "ValueError"]
                         ELSE LoopTop(gen))
  /\ UNCHANGED <<stream_subscriptions, stream_last_quotes, stream_running,
                 stream_next, manager, new_order>>

\* asyncio.sleep(1.0) is over
StreamWake(g) ==
  /\ generators[g].pc = "sleep"
  /\ LoopTopLock
  /\ Proceeds(g, LoopTop(generators[g]))
  /\ UNCHANGED <<stream_subscriptions, stream_last_quotes, stream_running,
                 stream_next, manager, new_order>>

\* the orders in which a set can be iterated
Orders(S) ==
  {order \in [1..Cardinality(S) -> S] :
     \A i, j \in 1..Cardinality(S) : order[i] = order[j] => i = j}

\* what get_quotes can return for the symbols asked: nothing, or a Quote per symbol
\* at the prices of one market state
StreamResponses(symbols) ==
  {<<>>} \cup
  { [i \in 1..Cardinality(symbols) |->
       [instrument |-> [symbol |-> order[i], type |-> "EQUITY"], last |-> p.last,
        bid |-> p.bid, ask |-> p.ask]] : order \in Orders(symbols), p \in Prices }

\* the object has the attribute
HasAttr(object, name) == name \in DOMAIN object

RECURSIVE Changes(_, _, _, _)
\* price_generator: the loop over the quotes, which updates the cache and collects
\* the changes, until an attribute is missing
Changes(quotes, i, cache, changes) ==
  IF i > Len(quotes)
  THEN [last_quotes |-> cache, changes |-> changes, raised |-> ""]
  ELSE LET quote == quotes[i]
           symbol == quote.instrument.symbol
       IN IF symbol \notin DOMAIN cache
          THEN Changes(quotes, i + 1, Put(cache, symbol, quote),
                       Put(changes, symbol, quote))
          ELSE IF ~HasAttr(cache[symbol], "last_price") \/ ~HasAttr(quote, "last_price")
               THEN [last_quotes |-> cache, changes |-> changes,
                     raised |-> "AttributeError"]
               ELSE IF cache[symbol].last_price # quote.last_price
                    THEN Changes(quotes, i + 1, Put(cache, symbol, quote),
                                 Put(changes, symbol, quote))
                    ELSE Changes(quotes, i + 1, cache, changes)

\* except Exception
StreamCatches(e) == e # "CancelledError"

\* a handler that goes back to the top of the loop without the delay
HandledWithoutDelay(gen, e, outcome) ==
  IF ~StreamCatches(e)
  THEN [gen EXCEPT !.pc = "raised", !.raised = e]
  ELSE LoopTop([gen EXCEPT !.logged = @ + 1])

\* price_generator: e was raised inside the try; it is logged and given to
\* on_error, which returns or raises, and the delay starts
Handled(gen, e, outcome) ==
  IF ~StreamCatches(e)
  THEN [gen EXCEPT !.pc = "raised", !.raised = e]
  ELSE LET logged == [gen EXCEPT !.logged = @ + 1]
       IN IF gen.on_error = "None"
          THEN [logged EXCEPT !.pc = "sleep"]
          ELSE IF outcome = "raises"
               THEN [logged EXCEPT !.pc = "raised", !.raised = "on_error",
                                   !.reported = Append(@, e)]
               ELSE [logged EXCEPT !.pc = "sleep", !.reported = Append(@, e)]

\* get_quotes returns quotes: the changes are yielded, or there is none and the
\* delay starts, or the comparison raises
StreamFetchReturns(g, quotes, outcome) ==
  /\ generators[g].pc = "fetch"
  /\ WithLock
  /\ LET gen == generators[g]
         compared == Changes(quotes, 1, stream_last_quotes, Empty)
         got == [gen EXCEPT !.returned = StreamRecord(@, quotes)]
     IN /\ stream_last_quotes' = compared.last_quotes
        /\ Proceeds(g, IF compared.raised # ""
                       THEN Handled(got, compared.raised, outcome)
                       ELSE IF compared.changes # Empty
                            THEN [got EXCEPT !.pc = "item", !.item = compared.changes,
                                    !.produced =
                                       StreamRecord(@, [fetch |-> gen.fetches,
                                                        item |-> compared.changes])]
                            ELSE [got EXCEPT !.pc = "sleep"])
  /\ UNCHANGED <<stream_subscriptions, stream_running, stream_next, manager, new_order>>

\* get_quotes raises e
StreamFetchRaises(g, e, outcome) ==
  /\ generators[g].pc = "fetch"
  /\ Proceeds(g, Handled(generators[g], e, outcome))
  /\ UNCHANGED <<stream_subscriptions, stream_last_quotes, stream_running,
                 stream_next, stream_lock, manager, new_order>>

NextStream ==
  \/ \E instruments \in InstrumentLists : StreamSubscribe(instruments)
  \/ \E id \in 1..MaxStreamSubs : StreamUnsubscribe(id)
  \/ StreamUnsubscribeAll
  \/ \E id \in 1..MaxStreamSubs, on_error \in OnErrorArgs : PriceGenerator(id, on_error)
  \/ \E g \in DOMAIN generators : Anext(g)
  \/ \E g \in DOMAIN generators : StreamWake(g)
  \/ \E g \in DOMAIN generators, outcome \in OnErrorOutcomes :
        \E quotes \in StreamResponses(generators[g].symbols) :
           StreamFetchReturns(g, quotes, outcome)
  \/ \E g \in DOMAIN generators, e \in StreamErrors, outcome \in OnErrorOutcomes :
        StreamFetchRaises(g, e, outcome)

\* one AsyncPriceStream, its callers and the consumers of its generators
SpecStream == InitStream /\ [][NextStream]_vars

\* one generator of one AsyncPriceStream and everything it fetched and yielded
SpecStreamHistory == InitStreamHistory /\ [][NextStream]_vars

\* an AsyncPriceStream whose callers subscribe and make generators
InitStreamPair ==
  /\ Constructed
  /\ budget = NoBudget
  /\ StreamConstructed
  /\ stream_budget = [subscribes |-> PairStreamSubs, removals |-> 0,
                      generators |-> PairGenerators, fetches |-> PairFetches,
                      history |-> TRUE]
  /\ OrderConstructed
  /\ order_budget = NoOrder

\* streams that watch AAPL, with a get_quotes that answers every call
NextStreamPair ==
  \/ \E instruments \in RetryInstruments : StreamSubscribe(instruments)
  \/ \E id \in 1..PairStreamSubs, on_error \in OnErrorArgs : PriceGenerator(id, on_error)
  \/ \E g \in DOMAIN generators : Anext(g)
  \/ \E g \in DOMAIN generators : StreamWake(g)
  \/ \E g \in DOMAIN generators, outcome \in OnErrorOutcomes :
        \E quotes \in StreamResponses(generators[g].symbols) :
           StreamFetchReturns(g, quotes, outcome)

\* two generators of one AsyncPriceStream and everything they fetched and yielded
SpecStreamPair == InitStreamPair /\ [][NextStreamPair]_vars

\* ----------------------------------------------------------- AsyncNewOrder
InitOrder ==
  /\ Constructed
  /\ budget = NoBudget
  /\ StreamConstructed
  /\ stream_budget = NoStream
  /\ OrderConstructed
  /\ order_budget = [waits |-> MaxWaits, fetches |-> MaxOrderFetches,
                     changes |-> MaxOrderChanges, ticks |-> MaxOrderTicks]

\* no wait_for_* coroutine of the order is running
NotWaiting == waiter.pc \in {"idle", "returned", "raised"}

\* the list wait_for_status compares the status with
TargetStatuses(target_status) ==
  IF target_status.isinstance = "OrderStatus"
  THEN <<target_status.value[1]>>
  ELSE target_status.value

TerminalStatuses == <<"FILLED", "CANCELLED", "REJECTED", "EXPIRED", "REPLACED">>

\* status in target_statuses
InList(status, statuses) == \E i \in 1..Len(statuses) : statuses[i] = status

\* wait_for_status up to its first await: the target list, start_time, and the
\* first call of get_details
WaitForStatus(target_status, timeout, polling_interval) ==
  /\ NotWaiting
  /\ order_budget.waits > 0
  /\ order_budget' = [order_budget EXCEPT !.waits = @ - 1]
  /\ waiter' = [NoWaiter EXCEPT !.pc = "get_details",
                               !.target_statuses = TargetStatuses(target_status),
                               !.timeout = timeout,
                               !.polling_interval = polling_interval,
                               !.start_time = monotonic]
  /\ UNCHANGED <<order_status, last_known_status, monotonic, manager, stream>>

\* wait_for_fill: wait_for_status(OrderStatus.FILLED, timeout=timeout)
WaitForFill(timeout) ==
  /\ NotWaiting
  /\ WaitForStatus([isinstance |-> "OrderStatus", value |-> <<"FILLED">>], timeout,
                   DefaultPollingInterval)

\* wait_for_terminal_status: wait_for_status(terminal_statuses, timeout=timeout)
WaitForTerminalStatus(timeout) ==
  /\ NotWaiting
  /\ WaitForStatus([isinstance |-> "list", value |-> TerminalStatuses], timeout,
                   DefaultPollingInterval)

\* the time on the clock, not the time since the call began
SinceClockStart(w) == monotonic

\* elapsed = time.monotonic() - start_time
Elapsed(w) == monotonic - w.start_time

\* a loop that tests the timeout before the status
DecideTimeoutFirst(w, status) ==
  IF w.timeout # NoTimeout /\ Elapsed(w) >= w.timeout
  THEN [w EXCEPT !.pc = "raised",
                 !.result = [kind |-> "WaitTimeoutError", order_id |-> OrderId,
                             target_statuses |-> w.target_statuses,
                             status |-> status]]
  ELSE IF InList(status, w.target_statuses)
  THEN [w EXCEPT !.pc = "returned", !.result = [kind |-> "Order", status |-> status]]
  ELSE [w EXCEPT !.pc = "sleep", !.wake = monotonic + w.polling_interval]

\* the body of the loop after get_details returned an order of this status
Decide(w, status) ==
  IF InList(status, w.target_statuses)
  THEN [w EXCEPT !.pc = "returned", !.result = [kind |-> "Order", status |-> status]]
  ELSE IF w.timeout # NoTimeout /\ Elapsed(w) >= w.timeout
  THEN [w EXCEPT !.pc = "raised",
                 !.result = [kind |-> "WaitTimeoutError", order_id |-> OrderId,
                             target_statuses |-> w.target_statuses,
                             status |-> status]]
  ELSE [w EXCEPT !.pc = "sleep", !.wake = monotonic + w.polling_interval]

\* get_order answers: get_details stores the status, and the loop goes on with it
GetDetailsReturns ==
  /\ waiter.pc = "get_details"
  /\ order_budget.fetches > 0
  /\ order_budget' = [order_budget EXCEPT !.fetches = @ - 1]
  /\ last_known_status' = order_status
  /\ waiter' = Decide([waiter EXCEPT !.fetched = Append(@, [status |-> order_status,
                                                           at |-> monotonic])],
                      order_status)
  /\ UNCHANGED <<order_status, monotonic, manager, stream>>

\* get_order raises: nothing in get_details or wait_for_status catches it
GetDetailsRaises(e) ==
  /\ waiter.pc = "get_details"
  /\ order_budget.fetches > 0
  /\ order_budget' = [order_budget EXCEPT !.fetches = @ - 1]
  /\ waiter' = [waiter EXCEPT !.pc = "raised", !.result = [kind |-> e]]
  /\ UNCHANGED <<order_status, last_known_status, monotonic, manager, stream>>

\* asyncio.sleep(polling_interval) is over: the next turn of the loop
WaitWake ==
  /\ waiter.pc = "sleep"
  /\ monotonic >= waiter.wake
  /\ waiter' = [waiter EXCEPT !.pc = "get_details"]
  /\ UNCHANGED <<order_status, last_known_status, monotonic, order_budget, manager,
                 stream>>

\* the API moves the order to another status
OrderChanges(status) ==
  /\ order_budget.changes > 0
  /\ status # order_status
  /\ order_budget' = [order_budget EXCEPT !.changes = @ - 1]
  /\ order_status' = status
  /\ UNCHANGED <<last_known_status, waiter, monotonic, manager, stream>>

\* time passes
OrderTick(d) ==
  /\ order_budget.ticks > 0
  /\ order_budget' = [order_budget EXCEPT !.ticks = @ - 1]
  /\ monotonic' = monotonic + d
  /\ UNCHANGED <<order_status, last_known_status, waiter, manager, stream>>

NextOrder ==
  \/ \E target_status \in TargetArgs, timeout \in TimeoutArgs,
        polling_interval \in PollingIntervalArgs :
        WaitForStatus(target_status, timeout, polling_interval)
  \/ \E timeout \in TimeoutArgs : WaitForFill(timeout)
  \/ \E timeout \in TimeoutArgs : WaitForTerminalStatus(timeout)
  \/ GetDetailsReturns
  \/ \E e \in OrderErrors : GetDetailsRaises(e)
  \/ WaitWake
  \/ \E status \in OrderStatus : OrderChanges(status)
  \/ \E d \in OrderAdvanceSteps : OrderTick(d)

SpecOrder == InitOrder /\ [][NextOrder]_vars

\* ------------------------------------------------------------- the claims
Range(seq) == {seq[i] : i \in 1..Len(seq)}

\* the keys the registered subscriptions watch
WatchedKeys == UNION {Keys(subscriptions[i].instruments) : i \in DOMAIN subscriptions}

\* the registered subscriptions that watch key
Watchers(key) ==
  {i \in DOMAIN subscriptions : key \in Keys(subscriptions[i].instruments)}

\* the invocations, since worker w's fetch returned, of id's callback for key
InvokedFor(w, id, key) ==
  {n \in (workers[w].logged + 1)..Len(invoked) :
      invoked[n].id = id /\ Key(invoked[n].change.instrument) = key}

\* C1: when the poll of a group has gone through all its members, every member that
\* is registered and ACTIVE and watches a key whose fetched quote differs (in last,
\* bid or ask) from the snapshot cached before the poll has had its callback invoked
\* exactly once for that key, also when several members watch the key.
C1_EveryWatcherNotified ==
  \A w \in DOMAIN workers :
    (workers[w].pc = "mark" /\ workers[w].quote_map # Empty /\ ~stop_event) =>
      LET wk == workers[w]
          work == Work(wk.groups[wk.gi].subs)
      IN \A i \in 1..Len(work) :
           LET id == work[i].id
               key == Key(work[i].instrument)
           IN (/\ id \in DOMAIN subscriptions
               /\ subscriptions[id].status = "ACTIVE"
               /\ key \in DOMAIN wk.quote_map
               /\ key \in DOMAIN wk.before
               /\ DetectPriceChange(work[i].instrument, wk.before[key],
                                    wk.quote_map[key]) # <<>>)
              => Cardinality(InvokedFor(w, id, key)) = 1

\* the one subscription of C2: the only one ever created, registered, one key,
\* polled by the only worker there ever was
OneSubscriptionOneKey ==
  /\ issued = <<1>>
  /\ nthreads = 1
  /\ 1 \in DOMAIN subscriptions
  /\ Len(subscriptions[1].instruments) = 1

\* the successful fetches so far are [Q1, Q1, Q2] for key, Q1 and Q2 differing on last
FetchedQ1Q1Q2(key) ==
  /\ Len(fetched) = 3
  /\ \A n \in 1..3 : key \in DOMAIN fetched[n]
  /\ fetched[1][key] = fetched[2][key]
  /\ fetched[2][key].last # fetched[3][key].last

\* C2: after at most one successful fetch no callback was invoked; and for a manager
\* that was not stopped, with one subscription watching one key and no comparison
\* under way, successful fetches [Q1, Q1, Q2] with Q1, Q2 differing on last mean
\* exactly one invocation, for Q1 -> Q2, with "last" among its changed_fields.
C2_OneChangeOneCallback ==
  /\ Len(fetched) <= 1 => invoked = <<>>
  /\ (/\ OneSubscriptionOneKey
      /\ ~stop_event
      /\ \A w \in DOMAIN workers : workers[w].pc \notin {"compare", "callback"}
      /\ FetchedQ1Q1Q2(Key(subscriptions[1].instruments[1])))
     => LET key == Key(subscriptions[1].instruments[1])
        IN /\ Len(invoked) = 1
           /\ invoked[1].id = 1
           /\ invoked[1].change.old_quote = fetched[2][key]
           /\ invoked[1].change.new_quote = fetched[3][key]
           /\ "last" \in Range(invoked[1].change.changed_fields)

C2_Witness ==
  /\ OneSubscriptionOneKey
  /\ ~stop_event
  /\ \E w \in DOMAIN workers : workers[w].pc = "sleep"
  /\ FetchedQ1Q1Q2(Key(subscriptions[1].instruments[1]))
  /\ Len(invoked) = 1

\* C3: a callback that raises leaves the polling loop running (the worker goes on
\* to the next member of the cycle) and its subscription registered as it was.
C3_RaisingCallbackContained ==
  [][\A w \in DOMAIN workers : \A e \in CallbackOutcomes \ {"ok"} :
       ExecuteCallback(w, e) =>
         /\ workers'[w].pc # "done"
         /\ subscriptions' = subscriptions]_vars

\* C4: a fetch that fails leaves the polling loop running, and invokes no callback
\* and changes neither the snapshot cache nor a subscription.
C4_FailedFetchContained ==
  [][\A w \in DOMAIN workers : \A e \in FetchErrors :
       FetchRaises(w, e) =>
         /\ workers'[w].pc # "done"
         /\ invoked' = invoked
         /\ last_quotes' = last_quotes
         /\ subscriptions' = subscriptions]_vars

\* C5: once every client thread is back from its calls and every id that subscribe
\* handed out was unsubscribed, the registry and the index are both empty.
C5_ChurnLeavesNothing ==
  (/\ \A t \in Clients : cpc[t] = "idle"
   /\ Range(issued) \subseteq unsubscribed)
  => /\ subscriptions = Empty
     /\ instrument_to_subscription = Empty

C5_Witness ==
  /\ \A t \in Clients : cpc[t] = "idle" /\ budget.calls[t] = 0
  /\ Len(issued) = 2
  /\ unsubscribed = {1, 2}
  /\ IsAlive(thread)
  /\ subscriptions = Empty
  /\ instrument_to_subscription = Empty

\* C6: in every state the index has a bucket for exactly the watched keys, each
\* bucket is the set of registered ids whose instruments contain the key, and none
\* is empty.
C6_IndexMatchesRegistry ==
  /\ DOMAIN instrument_to_subscription = WatchedKeys
  /\ \A key \in DOMAIN instrument_to_subscription :
       /\ instrument_to_subscription[key] = Watchers(key)
       /\ instrument_to_subscription[key] # {}

C6_Witness ==
  /\ DOMAIN subscriptions = {1, 2}
  /\ \E k1, k2 \in DOMAIN instrument_to_subscription :
        /\ instrument_to_subscription[k1] = {1, 2}
        /\ Cardinality(instrument_to_subscription[k2]) = 1

\* C7: unsubscribing a registered id keeps the cached quote and the bucket of every
\* key another subscription still watches, and deletes the cached quote and the
\* bucket of every key it was the last to watch.
C7_CacheFollowsLastWatcher ==
  [][\A t \in Clients : \A id \in DOMAIN subscriptions :
       Unsubscribe(t, id) =>
         \A key \in Keys(subscriptions[id].instruments) :
           IF Watchers(key) # {id}
           THEN /\ key \in DOMAIN instrument_to_subscription'
                /\ key \in DOMAIN last_quotes =>
                     /\ key \in DOMAIN last_quotes'
                     /\ last_quotes'[key] = last_quotes[key]
           ELSE /\ key \notin DOMAIN instrument_to_subscription'
                /\ key \notin DOMAIN last_quotes']_vars

C7_Witness ==
  /\ Len(issued) = 2
  /\ Cardinality(unsubscribed) = 1
  /\ result = Returned(TRUE)
  /\ \E key \in DOMAIN last_quotes :
        /\ Cardinality(Watchers(key)) = 1
        /\ \E w \in DOMAIN workers : workers[w].pc = "sleep"

\* C8: in every state each key of the snapshot cache is watched by a registered
\* subscription and each id of the last-poll-time table is registered.
C8_CachesFollowRegistry ==
  /\ DOMAIN last_quotes \subseteq WatchedKeys
  /\ DOMAIN last_poll_times \subseteq DOMAIN subscriptions

\* C9: subscribe with an empty instrument list raises ValueError, leaves the
\* registry, the index, the caches and the scheduler as they were, and starts no
\* thread.
C9_EmptySubscribeRejected ==
  [][\A t \in Clients : \A config \in {NoConfig} \cup CustomConfigs :
       Subscribe(t, <<>>, config) =>
         /\ result' = Raised("ValueError", "instruments must contain at least one item")
         /\ cpc'[t] = "idle"
         /\ UNCHANGED <<registry, scheduler, issued>>]_vars

C9_Witness ==
  /\ result = Raised("ValueError", "instruments must contain at least one item")
  /\ subscriptions = Empty
  /\ issued = <<>>
  /\ thread = 0
  /\ nthreads = 0

BoolCall(t, subscription_id) ==
  \/ Unsubscribe(t, subscription_id)
  \/ PauseSubscription(t, subscription_id)
  \/ ResumeSubscription(t, subscription_id)
  \/ \E f \in FrequencyArgs :
        ~FrequencyOutOfRange(f) /\ SetPollingFrequency(t, subscription_id, f)

\* C11: unsubscribe, pause, resume and set_polling_frequency (in range) on an id
\* that is not registered return False and change nothing of the manager;
\* get_subscription_info of such an id is None; unsubscribe of a registered id
\* returns True and removes it, and an id once unsubscribed is never registered
\* again, so every later unsubscribe of it returns False.
C11_UnknownIdRefused ==
  /\ [][\A t \in Clients : \A id \in 1..MaxSubs :
          /\ (id \notin DOMAIN subscriptions /\ BoolCall(t, id)) =>
                /\ result' = Returned(FALSE)
                /\ UNCHANGED <<registry, scheduler, issued, unsubscribed>>
          /\ (id \in DOMAIN subscriptions /\ Unsubscribe(t, id)) =>
                /\ result' = Returned(TRUE)
                /\ id \notin DOMAIN subscriptions']_vars
  /\ [](\A id \in 1..MaxSubs :
          /\ id \notin DOMAIN subscriptions => GetSubscriptionInfo(id) = <<>>
          /\ id \in unsubscribed => id \notin DOMAIN subscriptions)

C11_Witness ==
  /\ issued = <<1>>
  /\ unsubscribed = {1}
  /\ result = Returned(FALSE)
  /\ GetSubscriptionInfo(1) = <<>>

\* the polling frequency get_subscription_info reports for a registered id
FrequencyOf(id) == ConfigOf(subscriptions[id]).polling_frequency_seconds

\* C12: set_polling_frequency with a value below 0.1 s or above 60 s raises
\* ValueError and changes nothing, whether or not the id is registered; any other
\* value, the boundaries 0.1 s and 60 s included, is accepted for a registered id:
\* the call returns True and the id has that frequency.
C12_FrequencyRange ==
  [][\A t \in Clients : \A id \in 1..MaxSubs : \A f \in FrequencyArgs :
       SetPollingFrequency(t, id, f) =>
         IF f < MinFrequency \/ f > MaxFrequency
         THEN /\ result' = Raised("ValueError",
                             "Polling frequency must be between 0.1 and 60 seconds")
              /\ UNCHANGED <<registry, scheduler, issued, unsubscribed>>
         ELSE id \in DOMAIN subscriptions =>
                /\ result' = Returned(TRUE)
                /\ subscriptions' = subscriptions
                /\ ConfigOf(subscriptions[id])'.polling_frequency_seconds = f]_vars

C12_Witness ==
  /\ 1 \in DOMAIN subscriptions
  /\ FrequencyOf(1) = MaxFrequency
  /\ result = Returned(TRUE)

\* C13: a successful set_polling_frequency(id, s) leaves the frequency of every
\* other subscription, and the default configuration that later subscriptions
\* without a config get, as they were.
C13_FrequencyChangeIsLocal ==
  [][\A t \in Clients : \A id \in DOMAIN subscriptions : \A f \in FrequencyArgs :
       (SetPollingFrequency(t, id, f) /\ result' = Returned(TRUE)) =>
          /\ \A other \in DOMAIN subscriptions \ {id} :
                FrequencyOf(other)' = FrequencyOf(other)
          /\ configs'[0] = configs[0]]_vars

\* the registered ids whose status is ACTIVE
ActiveIds == {i \in DOMAIN subscriptions : subscriptions[i].status = "ACTIVE"}

\* C14: pause and resume of a registered id return True and change the status of
\* that subscription (to PAUSED, to ACTIVE) and nothing else: the other
\* subscriptions, the configs, the index, the cached quotes and the poll times stay
\* as they were; and get_active_subscriptions() lists exactly the ACTIVE ids.
C14_PauseResumeFrame ==
  /\ [][\A t \in Clients : \A id \in DOMAIN subscriptions :
          /\ PauseSubscription(t, id) =>
                /\ result' = Returned(TRUE)
                /\ subscriptions' = [subscriptions EXCEPT ![id].status = "PAUSED"]
                /\ UNCHANGED <<configs, instrument_to_subscription, last_quotes,
                               last_poll_times>>
          /\ ResumeSubscription(t, id) =>
                /\ result' = Returned(TRUE)
                /\ subscriptions' = [subscriptions EXCEPT ![id].status = "ACTIVE"]
                /\ UNCHANGED <<configs, instrument_to_subscription, last_quotes,
                               last_poll_times>>]_vars
  /\ [](Range(GetActiveSubscriptions) = ActiveIds)

C14_Witness ==
  /\ DOMAIN subscriptions = {1, 2}
  /\ subscriptions[1].status = "PAUSED"
  /\ subscriptions[2].status = "ACTIVE"
  /\ result = Returned(TRUE)
  /\ Keys(subscriptions[1].instruments) \subseteq DOMAIN last_quotes
  /\ \A key \in Keys(subscriptions[1].instruments) :
        1 \in instrument_to_subscription[key]
  /\ GetActiveSubscriptions = <<2>>

\* the subscriptions of the snapshot a worker's poll cycle works on
Members(wk) ==
  UNION { {wk.groups[g].subs[i].id : i \in 1..Len(wk.groups[g].subs)} :
          g \in 1..Len(wk.groups) }

\* C15: the snapshot a poll cycle takes holds exactly the subscriptions that are
\* registered and ACTIVE at that moment, no later step of the cycle adds one, the
\* instruments a cycle asks quotes for are instruments of the polled group's
\* members, and the callback the cycle awaits belongs to a member: a subscription
\* PAUSED or removed at the snapshot is not fetched for and not called back.
C15_SnapshotExcludesPaused ==
  /\ [][\A w \in DOMAIN workers :
          /\ PollAll(w) =>
               Members(workers'[w]) = IF stop_event THEN {} ELSE ActiveIds
          /\ workers[w].pc # "poll" =>
               Members(workers'[w]) \subseteq Members(workers[w])]_vars
  /\ [](\A w \in DOMAIN workers :
          LET wk == workers[w]
          IN /\ wk.pc \in {"fetch", "backoff"} =>
                  Keys(AllInstruments(wk.groups[wk.gi].subs)) =
                    UNION {Keys(wk.groups[wk.gi].subs[i].instruments) :
                             i \in 1..Len(wk.groups[wk.gi].subs)}
             /\ wk.pc = "callback" =>
                  Work(wk.groups[wk.gi].subs)[wk.wi].id \in Members(wk))

C15_Witness ==
  /\ DOMAIN subscriptions = {1, 2}
  /\ subscriptions[1].status = "PAUSED"
  /\ subscriptions[1].instruments = <<AAPL, MSFT>>
  /\ subscriptions[2].instruments = <<AAPL>>
  /\ \E w \in DOMAIN workers :
        /\ workers[w].pc = "callback"
        /\ Members(workers[w]) = {2}
        /\ DOMAIN workers[w].quote_map = {Key(AAPL)}

\* the worker threads that have been started and have not ended
AliveWorkers == {w \in DOMAIN workers : IsAlive(w)}

\* C16: in every reachable state at most one polling worker thread is alive,
\* whatever the interleaving of start() and subscribe() from several threads.
C16_AtMostOneWorker == Cardinality(AliveWorkers) <= 1

\* the only worker alive is the thread the manager knows, and stop() reaches it:
\* its task is self.polling_task, or it has not entered its loop yet
SoleWorker ==
  \A w \in AliveWorkers :
     w = thread /\ (w = polling_task \/ workers[w].pc = "run")

\* C17: once stop() has set the stop event on a manager with a sole worker, the
\* polling loop exits: as long as no start() clears the event again the worker
\* thread ends and stop() returns; no poll cycle begins while the event is set,
\* stop() returns None (whether or not a callback the worker awaited has
\* completed), the worker pool is shut down when it returns and stays so, and a
\* stop() on a manager without a live thread (a second stop, a stop before any
\* start) returns None as well.
C17_StopStops ==
  /\ (stop_event /\ SoleWorker) ~> (AliveWorkers = {} \/ ~stop_event)
  /\ \A t \in Clients :
       (cpc[t] = "join" /\ SoleWorker) ~> (cpc[t] = "idle" \/ ~stop_event)
  /\ [][/\ \A w \in DOMAIN workers :
             (stop_event /\ workers[w].pc = "poll") => workers'[w].pc # "group"
        /\ \A t \in Clients :
             StopJoin(t) => result' = ReturnedNone /\ executor_shutdown'
        /\ executor_shutdown => executor_shutdown']_vars

\* a first stop() has returned after the worker, started by a subscribe and past
\* a fetch, ended; a second stop() is under way
C17_Witness ==
  /\ nthreads = 1
  /\ Len(issued) = 1
  /\ AliveWorkers = {}
  /\ stop_event
  /\ executor_shutdown
  /\ result = ReturnedNone
  /\ \E t \in Clients : cpc[t] = "join"
  /\ budget.fetches < StopFetches

\* C18: the first step of a generator made for an id that is not registered
\* raises ValueError; no get_quotes call is made and the registry, the running
\* set and the cache are left as they were.
C18_UnknownIdRaises ==
  [][\A g \in DOMAIN generators :
       (Anext(g) /\ generators[g].pc = "created"
          /\ generators[g].subscription_id \notin DOMAIN stream_subscriptions)
       => /\ generators'[g].pc = "raised"
          /\ generators'[g].raised = "ValueError"
          /\ generators'[g].fetches = 0
          /\ UNCHANGED <<stream_subscriptions, stream_running, stream_last_quotes,
                         stream_budget>>]_vars

\* a generator for an id that was registered and removed raised, next to one that
\* iterates a registered id
C18_Witness ==
  \E g, h \in DOMAIN generators :
     /\ generators[g].pc = "raised"
     /\ generators[g].raised = "ValueError"
     /\ generators[g].fetches = 0
     /\ generators[g].subscription_id < stream_next
     /\ generators[h].pc = "item"

\* the generator is suspended in its loop: at a yielded item or in the delay
Iterating(gen) == gen.pc \in {"item", "sleep"}

\* C19: once the id of a generator that is iterating is no longer registered
\* (unsubscribe or unsubscribe_all returned), what the generator does next is to
\* start the delay or to end: it makes no further get_quotes call, yields no
\* item and raises nothing; and after the delay it ends.
C19_RemovedStreamEnds ==
  [][\A g \in DOMAIN generators :
       (/\ Iterating(generators[g])
        /\ generators[g].subscription_id \notin DOMAIN stream_subscriptions
        /\ generators'[g] # generators[g])
       => /\ generators'[g].pc \in {"sleep", "ended"}
          /\ generators[g].pc = "sleep" => generators'[g].pc = "ended"
          /\ generators'[g].fetches = generators[g].fetches
          /\ generators'[g].item = Empty
          /\ generators'[g].raised = ""]_vars

\* a generator that yielded an item ended after its id was removed
C19_Witness ==
  \E g \in DOMAIN generators :
     /\ generators[g].pc = "ended"
     /\ generators[g].fetches > 0
     /\ generators[g].raised = ""
     /\ generators[g].subscription_id \notin DOMAIN stream_subscriptions
     /\ generators[g].subscription_id < stream_next
     /\ stream_last_quotes # Empty

\* C20: a get_quotes call that raises an Exception does not end the generator:
\* the error is logged, on_error (when supplied) is called with it, and the
\* generator starts the delay, after which it fetches again while its id is
\* running.
C20_FailedFetchNeverEnds ==
  [][\A g \in DOMAIN generators :
       /\ \A e \in StreamErrors \ {"CancelledError"}, outcome \in OnErrorOutcomes :
            StreamFetchRaises(g, e, outcome) =>
              /\ generators'[g].pc = "sleep"
              /\ generators'[g].logged = generators[g].logged + 1
              /\ generators'[g].reported =
                   IF generators[g].on_error = "None" THEN generators[g].reported
                   ELSE Append(generators[g].reported, e)
       /\ (StreamWake(g) /\ generators[g].subscription_id \in stream_running)
            => generators'[g].pc = "fetch"]_vars

\* the last prices of the quotes for symbol in a sequence of get_quotes results
RECURSIVE LastsOf(_, _)
LastsOf(results, symbol) ==
  IF results = <<>> THEN <<>>
  ELSE LET quotes == Head(results)
           found == {i \in 1..Len(quotes) : quotes[i].instrument.symbol = symbol}
       IN (IF found = {} THEN <<>> ELSE <<quotes[CHOOSE i \in found : TRUE].last>>)
          \o LastsOf(Tail(results), symbol)

\* C21: the only generator of a stream watches AAPL alone and its three get_quotes
\* calls returned Q1, Q1, Q2 with different last prices: it produced exactly one
\* item, at the third fetch, holding Q2.
C21_OneItemForQ1Q1Q2 ==
  (/\ Len(generators) = 1
   /\ stream_next = 2
   /\ generators[1].symbols = {"AAPL"}
   /\ Len(generators[1].returned) = 3
   /\ \E q1, q2 \in {p.last : p \in Prices} :
         q1 # q2 /\ LastsOf(generators[1].returned, "AAPL") = <<q1, q1, q2>>)
  => /\ Len(generators[1].produced) = 1
     /\ generators[1].produced[1].fetch = 3
     /\ DOMAIN generators[1].produced[1].item = {"AAPL"}

\* what the wait in progress or last ended has fetched: the fetch that found a target
\* status, if any, is the last one, and the wait returned the order it fetched
ReturnedAtFirstMatch(w) ==
  /\ \A i \in 1..Len(w.fetched) :
        InList(w.fetched[i].status, w.target_statuses)
          => /\ i = Len(w.fetched)
             /\ w.pc = "returned"
  /\ w.pc = "returned"
       => /\ Len(w.fetched) >= 1
          /\ w.result = [kind |-> "Order", status |-> w.fetched[Len(w.fetched)].status]
          /\ InList(w.result.status, w.target_statuses)
  /\ w.pc = "raised" /\ w.result.kind = "WaitTimeoutError" => Len(w.fetched) >= 1

C23_TimeoutOnlyWhenDue ==
  [][/\ waiter'.pc = "raised" /\ waiter'.result.kind = "WaitTimeoutError"
          => /\ waiter'.timeout # NoTimeout
             /\ Len(waiter'.fetched) >= 1
             /\ waiter'.fetched[Len(waiter'.fetched)].at - waiter'.start_time
                  >= waiter'.timeout
             /\ ~InList(waiter'.fetched[Len(waiter'.fetched)].status,
                        waiter'.target_statuses)
             /\ waiter'.result.order_id = OrderId
             /\ waiter'.result.status = waiter'.fetched[Len(waiter'.fetched)].status
     /\ GetDetailsReturns /\ waiter.timeout = NoTimeout
          /\ ~InList(order_status, waiter.target_statuses)
          => /\ waiter'.pc = "sleep"
             /\ waiter'.wake = monotonic + waiter.polling_interval
     /\ \A i \in 1..(Len(waiter'.fetched) - 1) :
          waiter'.fetched[i + 1].at - waiter'.fetched[i].at >= waiter'.polling_interval
    ]_vars
\* a wait that began after the clock's start timed out at its second fetch
C23_Witness ==
  /\ waiter.pc = "raised"
  /\ waiter.result.kind = "WaitTimeoutError"
  /\ waiter.timeout > 0
  /\ waiter.start_time > 0
  /\ Len(waiter.fetched) = 2

\* this step is an attempt of worker w to fetch: a call of get_quotes_func
AttemptBy(w) == workers[w].pc = "fetch" /\ budget'.fetches < budget.fetches

\* C24: within one poll cycle the fetch of a group is attempted at most
\* 1 + max_retries times, and once only when retry_on_error is not set or max_retries
\* is 0 (retries counts the failed attempts of the cycle so far); an attempt that
\* returns ends the retries, and its quotes are the ones the cycle compares.
C24_AttemptsBounded ==
  [][\A w \in DOMAIN workers :
       AttemptBy(w) =>
         LET wk == workers[w]
             config == wk.groups[wk.gi].config
             attempt == wk.retries + 1
         IN /\ attempt <= 1 + config.max_retries
            /\ (~config.retry_on_error \/ config.max_retries = 0) => attempt = 1
            /\ workers'[w].pc = "backoff"
                 => /\ config.retry_on_error
                    /\ attempt <= config.max_retries
                    /\ workers'[w].retries = attempt
            /\ \A quotes \in Responses(AllInstruments(wk.groups[wk.gi].subs)) :
                 FetchReturns(w, quotes)
                   => /\ workers'[w].pc = (IF quotes = <<>> THEN "mark" ELSE "compare")
                      /\ quotes # <<>>
                           => workers'[w].quote_map = QuoteMap(quotes, 1, Empty)
    ]_vars
\* a worker about to make the fourth attempt of a cycle under the default config
C24_Witness ==
  \E w \in DOMAIN workers :
     /\ workers[w].pc = "fetch"
     /\ workers[w].retries = 3
     /\ workers[w].groups[workers[w].gi].config.max_retries = 3
     /\ budget.fetches > 0

\* C25: a fetch that fails with a validation error (ValueError, which the errors of
\* a pydantic validation are) is not retried: whatever the retry policy, the cycle
\* goes on without quotes after that one attempt.
C25_ValidationNeverRetried ==
  [][\A w \in DOMAIN workers :
       FetchRaises(w, "ValueError") => workers'[w].pc = "mark"]_vars

RECURSIVE Pow2(_)
Pow2(n) == IF n = 0 THEN 1 ELSE 2 * Pow2(n - 1)

\* C26: the wait before the k-th retry of a cycle is 2^(k-1) seconds with
\* exponential_backoff and one second without it (a second is 10 units of the
\* clock); after the last failed attempt of a cycle there is no wait.
C26_BackoffDoubles ==
  [][\A w \in DOMAIN workers :
       AttemptBy(w) =>
         LET wk == workers[w]
             config == wk.groups[wk.gi].config
         IN /\ workers'[w].pc = "backoff"
                 => LET k == workers'[w].retries
                        wait == workers'[w].wake - now
                    IN /\ k = wk.retries + 1
                       /\ config.exponential_backoff => wait = 10 * Pow2(k - 1)
                       /\ ~config.exponential_backoff => wait = 10
            /\ \A e \in FetchErrors :
                 (/\ FetchRaises(w, e)
                  /\ FetchCatches(e)
                  /\ ~config.retry_on_error \/ wk.retries >= config.max_retries)
                   => workers'[w].pc = "mark"
    ]_vars
\* a worker waits 4 seconds before the third retry under the default config
C26_Witness ==
  \E w \in DOMAIN workers :
     /\ workers[w].pc = "backoff"
     /\ workers[w].retries = 3
     /\ workers[w].groups[workers[w].gi].config.exponential_backoff
     /\ workers[w].wake - now = 40

\* the keys the members of a group watch
GroupKeys(subs) == UNION {Keys(subs[m].instruments) : m \in 1..Len(subs)}

\* C27: the request of a group's fetch lists each key watched by a member exactly
\* once, the quotes that come back are the cycle's quote_map, no second request
\* follows them in the same poll of the group, and every comparison made for a
\* member until the group is marked as polled reads that quote_map.
C27_OneFetchPerGroup ==
  [][\A w \in DOMAIN workers :
       LET wk == workers[w]
           subs == wk.groups[wk.gi].subs
           request == AllInstruments(subs)
       IN /\ AttemptBy(w)
               => /\ \A i, j \in 1..Len(request) :
                        Key(request[i]) = Key(request[j]) => i = j
                  /\ Keys(request) = GroupKeys(subs)
                  /\ \A quotes \in Responses(request) :
                        FetchReturns(w, quotes) /\ quotes # <<>>
                          => /\ DOMAIN workers'[w].quote_map = GroupKeys(subs)
                             /\ \A i \in 1..Len(quotes) :
                                  workers'[w].quote_map[Key(quotes[i].instrument)]
                                    = quotes[i]
          /\ wk.pc \in {"compare", "callback"}
               => /\ workers'[w].pc \notin {"fetch", "backoff"}
                  /\ workers'[w].pc \in {"compare", "callback"}
                       => /\ workers'[w].quote_map = wk.quote_map
                          /\ workers'[w].groups = wk.groups
                          /\ workers'[w].gi = wk.gi
          /\ wk.pc = "compare" /\ workers'[w] # wk
               => LET key == Key(Work(subs)[wk.wi].instrument)
                  IN /\ workers'[w].pc = "callback"
                          => workers'[w].change[1].new_quote = wk.quote_map[key]
                     /\ last_quotes' # last_quotes
                          => last_quotes' = Put(last_quotes, key, wk.quote_map[key])
    ]_vars
\* the second member of a group is compared for a key the first member watches too
C27_Witness ==
  \E w \in DOMAIN workers :
     LET wk == workers[w]
     IN /\ wk.pc = "compare"
        /\ Len(wk.groups[wk.gi].subs) = 2
        /\ Work(wk.groups[wk.gi].subs)[wk.wi].id = wk.groups[wk.gi].subs[2].id
        /\ Key(Work(wk.groups[wk.gi].subs)[wk.wi].instrument)
             \in Keys(wk.groups[wk.gi].subs[1].instruments)
        /\ Len(Work(wk.groups[wk.gi].subs)) > Cardinality(DOMAIN wk.quote_map)

\* a member of the group has no poll on record, or its last poll is at least the
\* group's frequency ago
Due(group) ==
  \E m \in 1..Len(group.subs) :
     \/ group.subs[m].id \notin DOMAIN last_poll_times
     \/ now - last_poll_times[group.subs[m].id] >= group.frequency

\* C28: when an iteration of the loop comes to a frequency group, the group is polled
\* if and only if one of its members has no poll on record or was last polled at
\* least the group's frequency ago; a group that is not due is passed over without a
\* fetch, and the iteration does not come back to it.
C28_PolledIffDue ==
  [][\A w \in DOMAIN workers :
       LET wk == workers[w]
       IN /\ Group(w) /\ wk.gi <= Len(wk.groups)
               => /\ workers'[w].pc \in {"fetch", "mark"} <=> Due(wk.groups[wk.gi])
                  /\ workers'[w].pc \in {"fetch", "mark"} => workers'[w].gi = wk.gi
                  /\ ~Due(wk.groups[wk.gi])
                       => /\ workers'[w].pc = "group"
                          /\ workers'[w].gi = wk.gi + 1
                          /\ workers'[w].groups = wk.groups
                          /\ budget' = budget
          /\ wk.pc = "group" /\ workers'[w].pc \in {"group", "fetch", "mark"}
               => workers'[w].gi >= wk.gi
          /\ workers'[w].pc = "fetch" /\ wk.pc # "fetch"
               => wk.pc = "backoff" \/ Group(w)
    ]_vars
\* an iteration has passed over its first group, polled less than its frequency
\* ago, and comes to the second: each group was fetched for once, in an earlier
\* iteration
C28_Witness ==
  \E w \in DOMAIN workers :
     LET wk == workers[w]
     IN /\ wk.pc = "group"
        /\ wk.gi = 2
        /\ Len(wk.groups) = 2
        /\ \A g \in 1..2 : wk.groups[g].subs[1].id \in DOMAIN last_poll_times
        /\ ~Due(wk.groups[1])
        /\ budget.fetches = DeepFetches - 2

\* C29: when a poll cycle fetches for a group, every member that was polled before
\* was last polled at least the frequency it is configured with (the group's) ago.
C29_CyclesFrequencyApart ==
  [][\A w \in DOMAIN workers :
       LET wk == workers[w]
       IN Group(w) /\ wk.gi <= Len(wk.groups) /\ workers'[w].pc = "fetch"
            => \A m \in 1..Len(wk.groups[wk.gi].subs) :
                 LET id == wk.groups[wk.gi].subs[m].id
                 IN id \in DOMAIN last_poll_times
                      => now - last_poll_times[id] >= wk.groups[wk.gi].frequency
    ]_vars

\* the smallest polling frequency among the ACTIVE subscriptions
SmallestActiveFrequency ==
  LET frequencies == {ConfigOf(subscriptions[i]).polling_frequency_seconds :
                        i \in ActiveIds}
  IN CHOOSE f \in frequencies : \A g \in frequencies : f <= g

\* C30: at the end of an iteration the loop sleeps for the smallest polling frequency
\* among the subscriptions that are ACTIVE at that moment, and for the frequency of
\* the default config when none is.
C30_SleepsSmallestActive ==
  [][\A w \in DOMAIN workers :
       Group(w) /\ workers'[w].pc = "sleep"
         => workers'[w].wake - now =
              (IF ActiveIds = {} THEN configs[0].polling_frequency_seconds
               ELSE SmallestActiveFrequency)
    ]_vars

\* the names of the fields in which two quotes differ, in the order last, bid, ask
UnequalFields(old_quote, new_quote) ==
  SelectSeq(<<"last", "bid", "ask">>, LAMBDA f : old_quote[f] # new_quote[f])

\* C31: for a cached and a fetched quote of one key the change detector returns no
\* change exactly when last, bid and ask are all equal, and otherwise a change made
\* of the instrument, the two quotes and the unequal fields among last, bid, ask, in
\* that order; the result depends on the two quotes alone, and making it changes
\* nothing of the manager.
C31_DetectsUnequalFields ==
  [][\A w \in DOMAIN workers :
       Compare(w) =>
         LET wk == workers[w]
             instrument == Work(wk.groups[wk.gi].subs)[wk.wi].instrument
             key == Key(instrument)
         IN key \in DOMAIN wk.quote_map /\ key \in DOMAIN last_quotes
              => LET old_quote == last_quotes[key]
                     new_quote == wk.quote_map[key]
                     fields == UnequalFields(old_quote, new_quote)
                     price_change == DetectPriceChange(instrument, old_quote, new_quote)
                 IN /\ price_change = <<>>
                         <=> /\ old_quote.last = new_quote.last
                             /\ old_quote.bid = new_quote.bid
                             /\ old_quote.ask = new_quote.ask
                    /\ price_change # <<>>
                         => /\ price_change[1] =
                                 [instrument |-> instrument, old_quote |-> old_quote,
                                  new_quote |-> new_quote, changed_fields |-> fields]
                            /\ workers'[w].pc = "callback"
                            /\ workers'[w].change = price_change
                            /\ UNCHANGED <<registry, fetched, invoked, now>>
                    /\ price_change = <<>> => workers'[w].pc # "callback"
    ]_vars
\* the detector has returned a change of the bid alone
C31_Witness ==
  \E w \in DOMAIN workers :
     /\ workers[w].pc = "callback"
     /\ workers[w].change[1].changed_fields = <<"bid">>
     /\ workers[w].change[1].old_quote.bid # workers[w].change[1].new_quote.bid

\* C32: a scheduler that start() or subscribe() set running again after a stop()
\* fetches for its ACTIVE subscriptions: the worker of a second or later thread,
\* the thread the manager knows, with the stop event clear, is never refused the
\* call of get_quotes_func.
C32_RestartedFetches ==
  [][\A w \in DOMAIN workers :
       ~(/\ FetchRefused(w)
         /\ w > 1
         /\ thread = w
         /\ ~stop_event
         /\ w \notin cancel_requested)
    ]_vars
\* an attempt to fetch for subscription id is under way: a worker is in
\* _fetch_quotes_with_retry for a group that id is a member of
FetchAttempted(id) ==
  \E w \in DOMAIN workers :
     /\ workers[w].pc \in {"fetch", "backoff"}
     /\ \E m \in 1..Len(workers[w].groups[workers[w].gi].subs) :
          workers[w].groups[workers[w].gi].subs[m].id = id

\* C33: when subscribe returns an id the scheduler's thread is alive, with no
\* start() called; and at any moment at which the subscription is ACTIVE on a
\* manager that was not stopped, a fetch for a group it belongs to is attempted
\* later on (so again and again, cycle after cycle), unless the subscription
\* ceases to be ACTIVE or the clock has no tick left.
C33_ActiveIsFetched ==
  /\ [][\A t \in Clients :
          (cpc[t] # "idle" /\ cpc'[t] = "idle" /\ result'.kind = "id")
             => IsAlive(thread)']_vars
  /\ \A id \in 1..MaxSubs :
       (id \in ActiveIds /\ ~stop_event)
          ~> (FetchAttempted(id) \/ id \notin ActiveIds \/ budget.ticks = 0)

\* the symbols of the fetched quotes whose last price is not the one the cache
\* holds for them (a symbol the cache does not hold has no last price there)
ChangedSymbols(quotes, cache) ==
  {quotes[i].instrument.symbol : i \in
     {j \in 1..Len(quotes) :
        \/ quotes[j].instrument.symbol \notin DOMAIN cache
        \/ cache[quotes[j].instrument.symbol].last # quotes[j].last}}

\* the quote fetched for the symbol
QuoteFor(quotes, symbol) ==
  quotes[CHOOSE i \in 1..Len(quotes) : quotes[i].instrument.symbol = symbol]

\* C34: a step of a stream whose fetch returned quotes produces an item if and
\* only if the last price of some fetched symbol differs from the cached one; the
\* item then maps exactly the changed symbols to their new quotes, the cache holds
\* the new quotes of the changed symbols and is otherwise as before; a step
\* without a change produces nothing and leaves the cache alone.
C34_ItemIffChanged ==
  [][\A g \in DOMAIN generators, outcome \in OnErrorOutcomes :
       \A quotes \in StreamResponses(generators[g].symbols) :
          StreamFetchReturns(g, quotes, outcome) =>
            LET changed == ChangedSymbols(quotes, stream_last_quotes)
            IN /\ (generators'[g].pc = "item") <=> (changed # {})
               /\ generators'[g].pc = "item" =>
                     /\ DOMAIN generators'[g].item = changed
                     /\ \A symbol \in changed :
                           generators'[g].item[symbol] = QuoteFor(quotes, symbol)
               /\ DOMAIN stream_last_quotes' = DOMAIN stream_last_quotes \cup changed
               /\ \A symbol \in DOMAIN stream_last_quotes' :
                     stream_last_quotes'[symbol] =
                        IF symbol \in changed THEN QuoteFor(quotes, symbol)
                        ELSE stream_last_quotes[symbol]
    ]_vars

\* C35: a stream starts a fetch other than its first only out of the delay, and
\* every way a fetch attempt ends leads to the delay before anything else: an
\* attempt that produced an item is followed by the delay when the consumer asks
\* for the next item, one that found no change or failed (and was handled) by the
\* delay at once; a generator that an exception ended fetches no more.
C35_DelayBetweenFetches ==
  [][\A g \in DOMAIN generators :
       LET gen == generators[g]
           next == generators'[g]
       IN /\ (next.fetches > gen.fetches /\ gen.fetches > 0) => gen.pc = "sleep"
          /\ (gen.pc = "fetch" /\ next # gen) => next.pc \in {"item", "sleep", "raised"}
          /\ (gen.pc = "item" /\ next # gen) => next.pc = "sleep"
          /\ gen.pc \in {"raised", "ended"} => next = gen
    ]_vars

\* a stream is at its third fetch after an attempt that produced an item and one
\* that failed
C35_Witness ==
  \E g \in DOMAIN generators :
     /\ generators[g].pc = "fetch"
     /\ generators[g].fetches = 3
     /\ Len(generators[g].produced) = 1
     /\ generators[g].logged = 1

\* a stream is suspended at its fetch, at an item it produced or at the delay
Suspended(gen) == gen.pc \in {"fetch", "item", "sleep"}

\* C36: the stream's lock is free whenever a stream is suspended (at a fetch, at
\* a produced item, at the delay), so a subscribe, an unsubscribe of any id and an
\* unsubscribe_all that a consumer or another task calls then are not kept
\* waiting for the lock: each can run to its end.
C36_LockFreeWhenSuspended ==
  (\E g \in DOMAIN generators : Suspended(generators[g])) =>
     /\ ~stream_lock
     /\ stream_budget.subscribes > 0 =>
           \A instruments \in InstrumentLists : ENABLED StreamSubscribe(instruments)
     /\ stream_budget.removals > 0 =>
           /\ \A id \in 1..MaxStreamSubs : ENABLED StreamUnsubscribe(id)
           /\ ENABLED StreamUnsubscribeAll

\* the consumer of a stream unsubscribed its id while the stream was suspended at
\* an item, and another stream is suspended at its fetch
C36_Witness ==
  \E g, h \in DOMAIN generators :
     /\ generators[g].pc = "item"
     /\ generators[g].subscription_id \notin stream_running
     /\ generators[h].pc = "fetch"
     /\ stream_budget.removals < StreamRemovals

\* the last price of symbol in what the k-th get_quotes call of the generator
\* returned, 0 when the call returned no quote for it
LastAt(gen, k, symbol) ==
  LET lasts == LastsOf(<<gen.returned[k]>>, symbol)
  IN IF lasts = <<>> THEN 0 ELSE lasts[1]

\* the generator produced, at its k-th fetch, an item with symbol at last price q
ProducedAt(gen, k, symbol, q) ==
  \E n \in 1..Len(gen.produced) :
     /\ gen.produced[n].fetch = k
     /\ symbol \in DOMAIN gen.produced[n].item
     /\ gen.produced[n].item[symbol].last = q

\* C37: two streams of one AsyncPriceStream watch AAPL and each of them fetched
\* last price Q1 and, at its next fetch, Q2 # Q1: each of the two produced, at
\* that fetch, an item that holds AAPL at Q2.
C37_BothStreamsProduce ==
  \A g, h \in DOMAIN generators :
     (g # h /\ "AAPL" \in generators[g].symbols \cap generators[h].symbols) =>
        \A k \in 2..Len(generators[g].returned), m \in 2..Len(generators[h].returned) :
           \A q1, q2 \in {p.last : p \in Prices} :
              (/\ q1 # q2
               /\ LastAt(generators[g], k - 1, "AAPL") = q1
               /\ LastAt(generators[g], k, "AAPL") = q2
               /\ LastAt(generators[h], m - 1, "AAPL") = q1
               /\ LastAt(generators[h], m, "AAPL") = q2)
              => /\ ProducedAt(generators[g], k, "AAPL", q2)
                 /\ ProducedAt(generators[h], m, "AAPL", q2)

\* the subscription whose callback the worker is about to invoke
CallbackOwner(w) ==
  Work(workers[w].groups[workers[w].gi].subs)[workers[w].wi].id

\* C38: the callback a worker invokes belongs to a subscription that is
\* registered and ACTIVE at that moment: after unsubscribe(id) returned True, and
\* between a pause(id) that returned True and the resume, the callback of id is
\* not invoked, whatever the poll cycle in progress had snapshotted.
C38_NoCallbackOncePausedOrRemoved ==
  [][\A w \in DOMAIN workers, outcome \in CallbackOutcomes :
       (ExecuteCallback(w, outcome) /\ ~executor_shutdown) =>
          /\ CallbackOwner(w) \in DOMAIN subscriptions
          /\ subscriptions[CallbackOwner(w)].status = "ACTIVE"
    ]_vars

\* C39: a failed fetch of a group is retried within the cycle only if the
\* configuration of every member of the group allows it: no member was created
\* with retry_on_error false or with max_retries 0.
C39_EveryMemberAllowsRetry ==
  [][\A w \in DOMAIN workers :
       (workers[w].pc = "fetch" /\ workers'[w].pc = "backoff") =>
          LET subs == workers[w].groups[workers[w].gi].subs
          IN \A m \in 1..Len(subs) :
                subs[m].id \in DOMAIN subscriptions =>
                   /\ ConfigOf(subscriptions[subs[m].id]).retry_on_error
                   /\ ConfigOf(subscriptions[subs[m].id]).max_retries > 0
    ]_vars

====
